---- MODULE Spec2Model ----
(***************************************************************************)
(* Model of the secretstore-js clients: the typed HTTP session client      *)
(* (lib/client/session.ts), the JSON-RPC client (lib/client/rpc.ts) and     *)
(* the string utilities they share (lib/utils.ts), and the legacy Session   *)
(* client (lib/secretstore/session.js with lib/utils.js).                   *)
(*                                                                          *)
(* Strings are sequences of one-character strings, so that startsWith,      *)
(* endsWith, slice and the quote-stripping regular expression are computed  *)
(* character by character.  JavaScript values are tagged records.           *)
(***************************************************************************)
EXTENDS Integers, Sequences, FiniteSets, TLC

VARIABLES url, requestConfig, provider, uri, constructed, calls

vars == <<url, requestConfig, provider, uri, constructed, calls>>

\* the fields of the client instances and what their constructors evaluated to
clientVars == <<url, requestConfig, provider, uri, constructed>>

----------------------------------------------------------------------------
(* Bounds of the model *)

\* the largest key threshold a caller passes
MaxThreshold == 10

\* the longest decrypt_shadows / node id array a caller passes
MaxShadows == 2

----------------------------------------------------------------------------
(* JavaScript values *)

Undef == [t |-> "undefined"]

Null == [t |-> "null"]

Str(s) == [t |-> "string", s |-> s]

Num(n) == [t |-> "number", n |-> n]

Arr(a) == [t |-> "array", a |-> a]

Obj(f) == [t |-> "object", f |-> f]

Bool(b) == [t |-> "boolean", b |-> b]

\* !v
Falsy(v) ==
    \/ v.t = "undefined"
    \/ v.t = "null"
    \/ (v.t = "string" /\ v.s = <<>>)
    \/ (v.t = "number" /\ v.n = 0)
    \/ (v.t = "boolean" /\ ~v.b)

\* typeof v === 'string' || v instanceof String
IsString(v) == v.t = "string"

\* o.name : a property the object does not have reads as undefined
Get(o, name) ==
    IF o.t = "object" /\ name \in DOMAIN o.f THEN o.f[name] ELSE Undef

DigitChars == <<"0", "1", "2", "3", "4", "5", "6", "7", "8", "9">>

RECURSIVE Decimal(_)
\* the decimal digits of a natural number, as String(n) prints it
Decimal(n) ==
    IF n < 10 THEN <<DigitChars[n + 1]>>
    ELSE Decimal(n \div 10) \o <<DigitChars[(n % 10) + 1]>>

TextUndefined ==
    <<"u", "n", "d", "e", "f", "i", "n", "e", "d">>

TextNull ==
    <<"n", "u", "l", "l">>

TextObject ==
    <<"[", "o", "b", "j", "e", "c", "t", " ", "O", "b", "j", "e", "c", "t", "]">>

RECURSIVE ToStr(_)
RECURSIVE JoinComma(_)
\* Array.prototype.join(','), which prints undefined elements as empty
JoinComma(a) ==
    IF a = <<>> THEN <<>>
    ELSE LET first == IF Head(a).t \in {"undefined", "null"} THEN <<>>
                      ELSE ToStr(Head(a))
         IN IF Len(a) = 1 THEN first
            ELSE first \o <<",">> \o JoinComma(Tail(a))

\* `${v}` : the string a template literal interpolates for v
ToStr(v) ==
    CASE v.t = "undefined" -> TextUndefined
      [] v.t = "null" -> TextNull
      [] v.t = "string" -> v.s
      [] v.t = "number" -> Decimal(v.n)
      [] v.t = "array" -> JoinComma(v.a)
      [] OTHER -> TextObject

----------------------------------------------------------------------------
(* lib/utils.ts *)

\* str.startsWith(prefix)
StartsWith(s, prefix) ==
    /\ Len(s) >= Len(prefix)
    /\ SubSeq(s, 1, Len(prefix)) = prefix

\* str.endsWith(suffix)
EndsWith(s, suffix) ==
    /\ Len(s) >= Len(suffix)
    /\ SubSeq(s, Len(s) - Len(suffix) + 1, Len(s)) = suffix

Prefix0x == <<"0", "x">>

\* remove0x(val), val a string or undefined; the result is a string
remove0x(val) ==
    IF Falsy(val) THEN <<>>
    ELSE IF StartsWith(val.s, Prefix0x) THEN SubSeq(val.s, 3, Len(val.s))
    ELSE val.s

\* a variant of ensure0x that prepends the prefix whatever the string starts
\* with
ensure0xAlways(str) == Prefix0x \o str

\* a variant of ensure0x that looks for the prefix anywhere in the string
ensure0xAnywhere(str) ==
    IF \E i \in 1..(Len(str) - 1) : SubSeq(str, i, i + 1) = Prefix0x
    THEN str ELSE Prefix0x \o str

\* ensure0x(str), str a string
ensure0x(str) ==
    IF StartsWith(str, Prefix0x) THEN str ELSE Prefix0x \o str

\* the characters the regular expression's "." does not match
LineTerminators == {"\n", "\r"}

\* str.replace(/^"(.*)"$/, '$1') on a string
removeEnclosingDQuotes(str) ==
    IF /\ Len(str) >= 2
       /\ str[1] = "\""
       /\ str[Len(str)] = "\""
       /\ \A i \in 2..(Len(str) - 1) : str[i] \notin LineTerminators
    THEN SubSeq(str, 2, Len(str) - 1)
    ELSE str

----------------------------------------------------------------------------
(* Errors and completions *)

\* an Error object; isAxiosError and response are what axios adds to its own
Err(class, message, meta) ==
    [t |-> "error", class |-> class, message |-> message, meta |-> meta,
     isAxiosError |-> FALSE, response |-> Undef]

\* new SecretStoreSessionError(message, meta)
SecretStoreSessionError(message, meta) ==
    Err("SecretStoreSessionError", message, meta)

\* the TypeError the engine throws for a property read or a method call on a
\* value that has none; its text is the engine's and is left empty
TypeError == Err("TypeError", <<>>, Undef)

Return(v) == [kind |-> "return", v |-> v]

Throw(e) == [kind |-> "throw", v |-> e]

NoOutcome == [kind |-> "none"]

----------------------------------------------------------------------------
(* Calls: one record per invocation of a client operation *)

IdleCall ==
    [op |-> "none", client |-> "none", args |-> <<>>, st |-> "idle",
     sent |-> <<>>, settles |-> 0, resp |-> NoOutcome, send |-> NoOutcome,
     out |-> NoOutcome]

\* the operation ran up to its await with one request handed to the transport
Started(client, op, args, req) ==
    [op |-> op, client |-> client, args |-> args, st |-> "pending",
     sent |-> <<req>>, settles |-> 0, resp |-> NoOutcome, send |-> NoOutcome,
     out |-> NoOutcome]

\* the operation threw before reaching the transport: the promise is rejected
Thrown(client, op, args, e) ==
    [op |-> op, client |-> client, args |-> args, st |-> "rejected",
     sent |-> <<>>, settles |-> 1, resp |-> NoOutcome, send |-> NoOutcome,
     out |-> Throw(e)]

\* the promise of a pending call settles with completion o after response r
Settled(call, r, o) ==
    [call EXCEPT !.st = IF o.kind = "return" THEN "resolved" ELSE "rejected",
                 !.settles = @ + 1,
                 !.resp = r,
                 !.out = o]

\* the promise of the call has settled
HasSettled(call) == call.st \in {"resolved", "rejected"}

\* a slot holds one invocation: it is free until an operation is called in it
Free(c) == calls[c].st = "idle"

----------------------------------------------------------------------------
(* lib/client/session.ts : SecretStoreSessionClient *)

RECURSIVE sessionUrlStripAll(_)
\* a variant of sessionUrl that slices off every trailing "/"
sessionUrlStripAll(ssEndpointUrl) ==
    IF EndsWith(ssEndpointUrl, <<"/">>)
    THEN sessionUrlStripAll(SubSeq(ssEndpointUrl, 1, Len(ssEndpointUrl) - 1))
    ELSE ssEndpointUrl

\* the constructor's url: one trailing "/" is sliced off
sessionUrl(ssEndpointUrl) ==
    IF EndsWith(ssEndpointUrl, <<"/">>)
    THEN SubSeq(ssEndpointUrl, 1, Len(ssEndpointUrl) - 1)
    ELSE ssEndpointUrl

MsgNoEndpointUrl ==
    <<"S", "e", "c", "r", "e", "t", " ", "S", "t", "o", "r", "e", " ", "e", "n", "d", "p", "o", "i", "n", "t", " ", "U", "R", "L", " ", "w", "a", "s", " ", "n", "o", "t", " ", "g", "i", "v", "e", "n">>

\* a variant of sessionConstructor that accepts an empty endpoint URL
sessionConstructorUnchecked(ssEndpointUrl, config) ==
    IF ~IsString(ssEndpointUrl)
    THEN Throw(TypeError)
    ELSE Return([url |-> sessionUrl(ssEndpointUrl.s), requestConfig |-> config])

\* new SecretStoreSessionClient(ssEndpointUrl, config): the instance's fields,
\* or the error thrown
sessionConstructor(ssEndpointUrl, config) ==
    IF Falsy(ssEndpointUrl)
    THEN Throw(Err("Error", MsgNoEndpointUrl, Undef))
    ELSE Return([url |-> sessionUrl(ssEndpointUrl.s), requestConfig |-> config])

\* a client instance exists
Instance(client) == constructed[client].out.kind = "return"

MethodPost == Str(<<"p", "o", "s", "t">>)

MethodGet == Str(<<"g", "e", "t">>)

PathShadow ==
    <<"/", "s", "h", "a", "d", "o", "w", "/">>

PathServer ==
    <<"/", "s", "e", "r", "v", "e", "r", "/">>

PathSchnorr ==
    <<"/", "s", "c", "h", "n", "o", "r", "r", "/">>

PathEcdsa ==
    <<"/", "e", "c", "d", "s", "a", "/">>

PathAdmin ==
    <<"/", "a", "d", "m", "i", "n", "/", "s", "e", "r", "v", "e", "r", "s", "_", "s", "e", "t", "_", "c", "h", "a", "n", "g", "e", "/">>

Slash == <<"/">>

\* what an operation decides before its await: a request for _send, or a throw
Send(method, u, body) ==
    [kind |-> "send", method |-> method, url |-> u, body |-> body]

\* a variant of axiosConfig that spreads the default configuration after the
\* call's url, method and data, so that the defaults it sets win
axiosConfigDefaultsLast(method, u, body) ==
    [requestConfig EXCEPT
        !.url = IF @ = Undef THEN Str(u) ELSE @,
        !.method = IF @ = Undef THEN method ELSE @,
        !.data = IF @ = Undef THEN body ELSE @]

\* _send's call of axios: the default configuration with url, method and data
\* overwritten by the call's
axiosConfig(method, u, body) ==
    [requestConfig EXCEPT !.url = Str(u), !.method = method, !.data = body]

generateServerKeyPlan(serverKeyID, signedServerKeyID, threshold) ==
    Send(MethodPost,
         url \o PathShadow \o remove0x(serverKeyID) \o Slash
             \o remove0x(signedServerKeyID) \o Slash \o ToStr(threshold),
         Undef)

retrieveServerKeyPublicPlan(serverKeyID, signedServerKeyID) ==
    Send(MethodGet,
         url \o PathServer \o remove0x(serverKeyID) \o Slash
             \o remove0x(signedServerKeyID),
         Undef)

MsgNoDocKeyParams ==
    <<"N", "o", " ", "d", "o", "c", "u", "m", "e", "n", "t", " ", "k", "e", "y", " ", "p", "a", "r", "a", "m", "e", "t", "e", "r", "s", " ", "w", "e", "r", "e", " ", "g", "i", "v", "e", "n">>

MsgNoEncryptedPoint ==
    <<"C", "o", "m", "m", "o", "n", " ", "p", "o", "i", "n", "t", " ", "w", "a", "s", " ", "g", "i", "v", "e", "n", " ", "b", "u", "t", " ", "n", "o", " ", "e", "n", "c", "r", "y", "p", "t", "e", "d", " ", "p", "o", "i", "n", "t", " ", "(">>

\* a variant of storeDocumentKeyPlan without the check of the encrypted point
storeDocumentKeyPlanUnchecked(serverKeyID, signedServerKeyID, commonPointOrKey, encryptedPoint) ==
    IF Falsy(commonPointOrKey)
    THEN Throw(Err("Error", MsgNoDocKeyParams, Undef))
    ELSE LET cp == IF IsString(commonPointOrKey)
                   THEN remove0x(commonPointOrKey)
                   ELSE remove0x(Get(commonPointOrKey, "common_point"))
             ep == IF IsString(commonPointOrKey)
                   THEN remove0x(encryptedPoint)
                   ELSE remove0x(Get(commonPointOrKey, "encrypted_point"))
         IN Send(MethodPost,
                 url \o PathShadow \o remove0x(serverKeyID) \o Slash
                     \o remove0x(signedServerKeyID) \o Slash \o cp \o Slash \o ep,
                 Undef)

\* a variant of storeDocumentKeyPlan whose object form sends the key's
\* encrypted_key in the place of its encrypted_point
storeDocumentKeyPlanEncryptedKey(serverKeyID, signedServerKeyID, commonPointOrKey, encryptedPoint) ==
    IF Falsy(commonPointOrKey)
    THEN Throw(Err("Error", MsgNoDocKeyParams, Undef))
    ELSE IF IsString(commonPointOrKey) /\ Falsy(encryptedPoint)
    THEN Throw(Err("Error", MsgNoEncryptedPoint \o ToStr(encryptedPoint) \o <<")">>, Undef))
    ELSE LET cp == IF IsString(commonPointOrKey)
                   THEN remove0x(commonPointOrKey)
                   ELSE remove0x(Get(commonPointOrKey, "common_point"))
             ep == IF IsString(commonPointOrKey)
                   THEN remove0x(encryptedPoint)
                   ELSE remove0x(Get(commonPointOrKey, "encrypted_key"))
         IN Send(MethodPost,
                 url \o PathShadow \o remove0x(serverKeyID) \o Slash
                     \o remove0x(signedServerKeyID) \o Slash \o cp \o Slash \o ep,
                 Undef)

\* a variant of storeDocumentKeyPlan that reports a missing encrypted point
\* in the words shadowDecrypt uses for missing portions
storeDocumentKeyPlanNotEnough(serverKeyID, signedServerKeyID, commonPointOrKey, encryptedPoint) ==
    IF Falsy(commonPointOrKey)
    THEN Throw(Err("Error", MsgNoDocKeyParams, Undef))
    ELSE IF IsString(commonPointOrKey) /\ Falsy(encryptedPoint)
    THEN Throw(Err("Error",
                   <<"N", "o", "t", " ", "e", "n", "o", "u", "g", "h", " ", "d", "o", "c", "u", "m", "e", "n", "t", " ", "k", "e", "y", " ", "p", "o", "r", "t", "i", "o", "n", "s", " ", "w", "e", "r", "e", " ", "s", "u", "p", "p", "l", "i", "e", "d">>
                       \o <<" ", "(">> \o ToStr(commonPointOrKey) \o <<",">>
                       \o ToStr(encryptedPoint) \o <<")">>,
                   Undef))
    ELSE LET cp == IF IsString(commonPointOrKey)
                   THEN remove0x(commonPointOrKey)
                   ELSE remove0x(Get(commonPointOrKey, "common_point"))
             ep == IF IsString(commonPointOrKey)
                   THEN remove0x(encryptedPoint)
                   ELSE remove0x(Get(commonPointOrKey, "encrypted_point"))
         IN Send(MethodPost,
                 url \o PathShadow \o remove0x(serverKeyID) \o Slash
                     \o remove0x(signedServerKeyID) \o Slash \o cp \o Slash \o ep,
                 Undef)

storeDocumentKeyPlan(serverKeyID, signedServerKeyID, commonPointOrKey, encryptedPoint) ==
    IF Falsy(commonPointOrKey)
    THEN Throw(Err("Error", MsgNoDocKeyParams, Undef))
    ELSE IF IsString(commonPointOrKey) /\ Falsy(encryptedPoint)
    THEN Throw(Err("Error", MsgNoEncryptedPoint \o ToStr(encryptedPoint) \o <<")">>, Undef))
    ELSE LET cp == IF IsString(commonPointOrKey)
                   THEN remove0x(commonPointOrKey)
                   ELSE remove0x(Get(commonPointOrKey, "common_point"))
             ep == IF IsString(commonPointOrKey)
                   THEN remove0x(encryptedPoint)
                   ELSE remove0x(Get(commonPointOrKey, "encrypted_point"))
         IN Send(MethodPost,
                 url \o PathShadow \o remove0x(serverKeyID) \o Slash
                     \o remove0x(signedServerKeyID) \o Slash \o cp \o Slash \o ep,
                 Undef)

\* a variant of generateServerAndDocumentKeyPlan that posts under /shadow/ as
\* generateServerKey does
generateServerAndDocumentKeyPlanUnderShadow(serverKeyID, signedServerKeyID, threshold) ==
    Send(MethodPost,
         url \o PathShadow \o remove0x(serverKeyID) \o Slash
             \o remove0x(signedServerKeyID) \o Slash \o ToStr(threshold),
         Undef)

generateServerAndDocumentKeyPlan(serverKeyID, signedServerKeyID, threshold) ==
    Send(MethodPost,
         url \o Slash \o remove0x(serverKeyID) \o Slash
             \o remove0x(signedServerKeyID) \o Slash \o ToStr(threshold),
         Undef)

shadowRetrieveDocumentKeyPlan(serverKeyID, signedServerKeyID) ==
    Send(MethodGet,
         url \o PathShadow \o remove0x(serverKeyID) \o Slash
             \o remove0x(signedServerKeyID),
         Undef)

retrieveDocumentKeyPlan(serverKeyID, signedServerKeyID) ==
    Send(MethodGet,
         url \o Slash \o remove0x(serverKeyID) \o Slash
             \o remove0x(signedServerKeyID),
         Undef)

\* a variant of signSchnorrPlan that strips the 0x prefix of the message hash
\* as it does of the identifiers
signSchnorrPlanStripped(serverKeyID, signedServerKeyID, messageHash) ==
    Send(MethodGet,
         url \o PathSchnorr \o remove0x(serverKeyID) \o Slash
             \o remove0x(signedServerKeyID) \o Slash \o remove0x(messageHash),
         Undef)

signSchnorrPlan(serverKeyID, signedServerKeyID, messageHash) ==
    Send(MethodGet,
         url \o PathSchnorr \o remove0x(serverKeyID) \o Slash
             \o remove0x(signedServerKeyID) \o Slash \o ToStr(messageHash),
         Undef)

signEcdsaPlan(serverKeyID, signedServerKeyID, messageHash) ==
    Send(MethodGet,
         url \o PathEcdsa \o remove0x(serverKeyID) \o Slash
             \o remove0x(signedServerKeyID) \o Slash \o ToStr(messageHash),
         Undef)

RECURSIVE JsonElements(_)
\* the elements of JSON.stringify(array of strings), comma separated
JsonElements(a) ==
    IF a = <<>> THEN <<>>
    ELSE LET first == <<"\"">> \o Head(a).s \o <<"\"">>
         IN IF Len(a) = 1 THEN first
            ELSE first \o <<",">> \o JsonElements(Tail(a))

\* JSON.stringify(nodeIDs) for an array of strings without characters to escape
JsonStringify(nodeIDs) == <<"[">> \o JsonElements(nodeIDs.a) \o <<"]">>

\* a variant of nodesSetChangePlan with the new set's signature before the old
\* set's
nodesSetChangePlanNewFirst(nodeIDsNewSet, signatureOldSet, signatureNewSet) ==
    Send(MethodPost,
         url \o PathAdmin \o remove0x(signatureNewSet) \o Slash
             \o remove0x(signatureOldSet),
         Str(JsonStringify(nodeIDsNewSet)))

nodesSetChangePlan(nodeIDsNewSet, signatureOldSet, signatureNewSet) ==
    Send(MethodPost,
         url \o PathAdmin \o remove0x(signatureOldSet) \o Slash
             \o remove0x(signatureNewSet),
         Str(JsonStringify(nodeIDsNewSet)))

\* a variant of SessionInvoke that keeps the URL it built in the client's url
\* field
SessionInvokeStoresUrl(c, op, args, plan) ==
    /\ Instance("session")
    /\ Free(c)
    /\ calls' = [calls EXCEPT ![c] =
            IF plan.kind = "throw"
            THEN Thrown("session", op, args, plan.v)
            ELSE Started("session", op, args,
                         axiosConfig(plan.method, plan.url, plan.body))]
    /\ url' = IF plan.kind = "throw" THEN url ELSE plan.url
    /\ UNCHANGED <<requestConfig, provider, uri, constructed>>

\* an operation of the session client runs to its await: it throws, or _send
\* hands one request to axios
SessionInvoke(c, op, args, plan) ==
    /\ Instance("session")
    /\ Free(c)
    /\ calls' = [calls EXCEPT ![c] =
            IF plan.kind = "throw"
            THEN Thrown("session", op, args, plan.v)
            ELSE Started("session", op, args,
                         axiosConfig(plan.method, plan.url, plan.body))]
    /\ UNCHANGED clientVars

generateServerKey(c, serverKeyID, signedServerKeyID, threshold) ==
    SessionInvoke(c, "generateServerKey",
                  <<serverKeyID, signedServerKeyID, threshold>>,
                  generateServerKeyPlan(serverKeyID, signedServerKeyID, threshold))

retrieveServerKeyPublic(c, serverKeyID, signedServerKeyID) ==
    SessionInvoke(c, "retrieveServerKeyPublic",
                  <<serverKeyID, signedServerKeyID>>,
                  retrieveServerKeyPublicPlan(serverKeyID, signedServerKeyID))

storeDocumentKey(c, serverKeyID, signedServerKeyID, commonPointOrKey, encryptedPoint) ==
    SessionInvoke(c, "storeDocumentKey",
                  <<serverKeyID, signedServerKeyID, commonPointOrKey, encryptedPoint>>,
                  storeDocumentKeyPlan(serverKeyID, signedServerKeyID,
                                       commonPointOrKey, encryptedPoint))

generateServerAndDocumentKey(c, serverKeyID, signedServerKeyID, threshold) ==
    SessionInvoke(c, "generateServerAndDocumentKey",
                  <<serverKeyID, signedServerKeyID, threshold>>,
                  generateServerAndDocumentKeyPlan(serverKeyID, signedServerKeyID, threshold))

shadowRetrieveDocumentKey(c, serverKeyID, signedServerKeyID) ==
    SessionInvoke(c, "shadowRetrieveDocumentKey",
                  <<serverKeyID, signedServerKeyID>>,
                  shadowRetrieveDocumentKeyPlan(serverKeyID, signedServerKeyID))

retrieveDocumentKey(c, serverKeyID, signedServerKeyID) ==
    SessionInvoke(c, "retrieveDocumentKey",
                  <<serverKeyID, signedServerKeyID>>,
                  retrieveDocumentKeyPlan(serverKeyID, signedServerKeyID))

signSchnorr(c, serverKeyID, signedServerKeyID, messageHash) ==
    SessionInvoke(c, "signSchnorr",
                  <<serverKeyID, signedServerKeyID, messageHash>>,
                  signSchnorrPlan(serverKeyID, signedServerKeyID, messageHash))

signEcdsa(c, serverKeyID, signedServerKeyID, messageHash) ==
    SessionInvoke(c, "signEcdsa",
                  <<serverKeyID, signedServerKeyID, messageHash>>,
                  signEcdsaPlan(serverKeyID, signedServerKeyID, messageHash))

nodesSetChange(c, nodeIDsNewSet, signatureOldSet, signatureNewSet) ==
    SessionInvoke(c, "nodesSetChange",
                  <<nodeIDsNewSet, signatureOldSet, signatureNewSet>>,
                  nodesSetChangePlan(nodeIDsNewSet, signatureOldSet, signatureNewSet))

----------------------------------------------------------------------------
(* The HTTP transport (axios) as the session client sees it *)

\* an axios response object
Response(status, statusText, data, config) ==
    [t |-> "response", status |-> Num(status), statusText |-> Str(statusText),
     data |-> data, config |-> config]

\* an error axios creates: isAxiosError is set, response only when one arrived
AxiosError(message, response) ==
    [Err("Error", message, Undef) EXCEPT !.isAxiosError = TRUE,
                                         !.response = response]

\* _send after its await: the response's data, or the error the catch throws
sessionSendCompletion(r) ==
    IF r.kind = "return" THEN Return(r.v.data)
    ELSE IF r.v.isAxiosError
    THEN LET response == r.v.response
         IN IF response.t = "undefined" THEN Throw(TypeError)
            ELSE IF ~IsString(response.data) THEN Throw(TypeError)
            ELSE Throw(SecretStoreSessionError(
                     ToStr(response.statusText) \o <<" ", "(">>
                         \o ToStr(response.status) \o <<")", ":", " ">>
                         \o removeEnclosingDQuotes(response.data.s),
                     response.config))
    ELSE Throw(r.v)

\* the operations that pass _send's value through removeEnclosingDQuotes
UnquotingOps ==
    {"generateServerKey", "retrieveServerKeyPublic", "generateServerAndDocumentKey",
     "retrieveDocumentKey", "signSchnorr", "signEcdsa", "nodesSetChange"}

\* what the operation does with _send's completion: its return statement
sessionReturn(op, completion) ==
    IF completion.kind = "throw" THEN completion
    ELSE IF op \in UnquotingOps
    THEN IF IsString(completion.v)
         THEN Return(Str(removeEnclosingDQuotes(completion.v.s)))
         ELSE Throw(TypeError)
    ELSE completion

\* a variant of sessionAnswer that hands the answer to the pending session
\* call of the lowest slot, whichever call the request belongs to
sessionAnswerFirstPending(c, r) ==
    /\ calls[c].st = "pending"
    /\ calls[c].client = "session"
    /\ calls[c].resp = NoOutcome
    /\ LET first == CHOOSE d \in DOMAIN calls :
                       /\ calls[d].st = "pending" /\ calls[d].client = "session"
                       /\ calls[d].resp = NoOutcome
                       /\ \A e \in DOMAIN calls :
                             (/\ calls[e].st = "pending" /\ calls[e].client = "session"
                              /\ calls[e].resp = NoOutcome)
                             => d <= e
       IN calls' = [calls EXCEPT ![first].resp = r]
    /\ UNCHANGED clientVars

\* the transport settles the promise axios returned for the request of a
\* pending session call with r; _send has yet to resume
sessionAnswer(c, r) ==
    /\ calls[c].st = "pending"
    /\ calls[c].client = "session"
    /\ calls[c].resp = NoOutcome
    /\ calls' = [calls EXCEPT ![c].resp = r]
    /\ UNCHANGED clientVars

\* a variant of sessionSendReturns that issues the request once more when the
\* transport failed, and waits for another answer
sessionSendReturnsRetry(c) ==
    /\ calls[c].st = "pending"
    /\ calls[c].client = "session"
    /\ calls[c].resp # NoOutcome
    /\ calls[c].send = NoOutcome
    /\ calls' = [calls EXCEPT ![c] =
            IF @.resp.kind = "throw" /\ Len(@.sent) < 3
            THEN [@ EXCEPT !.sent = Append(@, @[1]), !.resp = NoOutcome]
            ELSE [@ EXCEPT !.send = sessionSendCompletion(calls[c].resp)]]
    /\ UNCHANGED clientVars

\* _send resumes after its await on the answered request and completes: the
\* promise _send returned settles, the operation has yet to resume
sessionSendReturns(c) ==
    /\ calls[c].st = "pending"
    /\ calls[c].client = "session"
    /\ calls[c].resp # NoOutcome
    /\ calls[c].send = NoOutcome
    /\ calls' = [calls EXCEPT ![c].send = sessionSendCompletion(calls[c].resp)]
    /\ UNCHANGED clientVars

\* a variant of sessionSettle in which a timer of the client rejects the
\* pending call, whether or not _send has completed
sessionSettleTimeout(c) ==
    /\ calls[c].st = "pending"
    /\ calls[c].client = "session"
    /\ calls' = [calls EXCEPT ![c] =
            Settled(@, @.resp, Throw(Err("Error", <<"t", "i", "m", "e", "o", "u", "t">>, Undef)))]
    /\ UNCHANGED clientVars

\* the operation resumes after its await on _send (or its promise adopts the
\* one _send returned) and the operation's promise settles
sessionSettle(c) ==
    /\ calls[c].st = "pending"
    /\ calls[c].client = "session"
    /\ calls[c].send # NoOutcome
    /\ calls' = [calls EXCEPT ![c] =
            Settled(@, @.resp, sessionReturn(@.op, @.send))]
    /\ UNCHANGED clientVars

----------------------------------------------------------------------------
(* lib/client/rpc.ts : SecretStoreRpcApiClient *)

\* a variant of rpcProvider that creates a new provider whatever it is given
rpcProviderAlwaysNew(ssLocalAPIEndpoint) ==
    [t |-> "provider", url |-> ToStr(ssLocalAPIEndpoint), created |-> TRUE]

\* the constructor's provider: a new JsonRpcProvider for a url string, or the
\* provider handle it was given
rpcProvider(ssLocalAPIEndpoint) ==
    IF IsString(ssLocalAPIEndpoint)
    THEN [t |-> "provider", url |-> ssLocalAPIEndpoint.s, created |-> TRUE]
    ELSE ssLocalAPIEndpoint

MsgNoRpcEndpoint ==
    <<"S", "e", "c", "r", "e", "t", " ", "S", "t", "o", "r", "e", " ", "R", "P", "C", " ", "m", "o", "d", "u", "l", "e", " ", "e", "n", "d", "p", "o", "i", "n", "t", " ", "U", "R", "L", " ", "w", "a", "s", " ", "n", "o", "t", " ", "g", "i", "v", "e", "n">>

\* new SecretStoreRpcApiClient(ssLocalAPIEndpoint): the instance's field, or
\* the error thrown
rpcConstructor(ssLocalAPIEndpoint) ==
    IF Falsy(ssLocalAPIEndpoint)
    THEN Throw(Err("Error", MsgNoRpcEndpoint, Undef))
    ELSE Return([provider |-> rpcProvider(ssLocalAPIEndpoint)])

\* the arguments an operation hands to _send
RpcSend(method, params) ==
    [kind |-> "send", method |-> method, params |-> params]

signRawHashPlan(account, pwd, rawhash) ==
    IF ~IsString(rawhash) THEN Throw(TypeError)
    ELSE RpcSend("secretstore_signRawHash",
                 <<account, pwd, Str(ensure0x(rawhash.s))>>)

generateDocumentKeyPlan(account, pwd, serverKey) ==
    IF ~IsString(serverKey) THEN Throw(TypeError)
    ELSE RpcSend("secretstore_generateDocumentKey",
                 <<account, pwd, Str(ensure0x(serverKey.s))>>)

\* a variant of encryptPlan that sends the document before the key, in the
\* order of its own parameters
encryptPlanDocumentFirst(account, pwd, hexDocument, encryptedDocumentKey) ==
    IF ~IsString(encryptedDocumentKey) \/ ~IsString(hexDocument)
    THEN Throw(TypeError)
    ELSE RpcSend("secretstore_encrypt",
                 <<account, pwd, Str(ensure0x(hexDocument.s)),
                   Str(ensure0x(encryptedDocumentKey.s))>>)

encryptPlan(account, pwd, hexDocument, encryptedDocumentKey) ==
    IF ~IsString(encryptedDocumentKey) \/ ~IsString(hexDocument)
    THEN Throw(TypeError)
    ELSE RpcSend("secretstore_encrypt",
                 <<account, pwd, Str(ensure0x(encryptedDocumentKey.s)),
                   Str(ensure0x(hexDocument.s))>>)

decryptPlan(account, pwd, encryptedDocument, encryptedDocumentKey) ==
    IF ~IsString(encryptedDocumentKey) \/ ~IsString(encryptedDocument)
    THEN Throw(TypeError)
    ELSE RpcSend("secretstore_decrypt",
                 <<account, pwd, Str(ensure0x(encryptedDocumentKey.s)),
                   Str(ensure0x(encryptedDocument.s))>>)

MsgNoPortions ==
    <<"D", "o", "c", "u", "m", "e", "n", "t", " ", "k", "e", "y", " ", "p", "o", "r", "t", "i", "o", "n", "s", " ", "w", "e", "r", "e", " ", "n", "o", "t", " ", "s", "u", "p", "p", "l", "i", "e", "d">>

MsgNotEnoughPortions ==
    <<"N", "o", "t", " ", "e", "n", "o", "u", "g", "h", " ", "d", "o", "c", "u", "m", "e", "n", "t", " ", "k", "e", "y", " ", "p", "o", "r", "t", "i", "o", "n", "s", " ", "w", "e", "r", "e", " ", "s", "u", "p", "p", "l", "i", "e", "d", " ", "(">>

\* the _send call both branches of shadowDecrypt end in
shadowDecryptSend(account, pwd, encryptedDocument, secret, commonPoint, shadows) ==
    IF ~IsString(secret) \/ ~IsString(commonPoint) \/ ~IsString(encryptedDocument)
    THEN Throw(TypeError)
    ELSE RpcSend("secretstore_shadowDecrypt",
                 <<account, pwd, Str(ensure0x(secret.s)), Str(ensure0x(commonPoint.s)),
                   shadows, Str(ensure0x(encryptedDocument.s))>>)

\* a variant of shadowDecryptPlan whose object form passes the portions'
\* common_point and decrypted_secret in each other's place
shadowDecryptPlanSwapped(account, pwd, encryptedDocument, decryptedSecretOrDocumentKeyPortions, commonPoint, decryptShadows) ==
    IF Falsy(decryptedSecretOrDocumentKeyPortions)
    THEN Throw(Err("Error", MsgNoPortions, Undef))
    ELSE IF IsString(decryptedSecretOrDocumentKeyPortions)
    THEN IF \/ Falsy(commonPoint)
            \/ Falsy(decryptShadows)
            \/ (decryptShadows.t = "array" /\ Len(decryptShadows.a) = 0)
         THEN Throw(Err("Error",
                        MsgNotEnoughPortions
                            \o ToStr(decryptedSecretOrDocumentKeyPortions) \o <<",">>
                            \o ToStr(commonPoint) \o <<",">>
                            \o ToStr(decryptShadows) \o <<")">>,
                        Undef))
         ELSE shadowDecryptSend(account, pwd, encryptedDocument,
                                decryptedSecretOrDocumentKeyPortions,
                                commonPoint, decryptShadows)
    ELSE shadowDecryptSend(account, pwd, encryptedDocument,
                           Get(decryptedSecretOrDocumentKeyPortions, "common_point"),
                           Get(decryptedSecretOrDocumentKeyPortions, "decrypted_secret"),
                           Get(decryptedSecretOrDocumentKeyPortions, "decrypt_shadows"))

\* a variant of shadowDecryptPlan whose positional form accepts an empty list
\* of shadows
shadowDecryptPlanAnyShadows(account, pwd, encryptedDocument, decryptedSecretOrDocumentKeyPortions, commonPoint, decryptShadows) ==
    IF Falsy(decryptedSecretOrDocumentKeyPortions)
    THEN Throw(Err("Error", MsgNoPortions, Undef))
    ELSE IF IsString(decryptedSecretOrDocumentKeyPortions)
    THEN IF Falsy(commonPoint) \/ Falsy(decryptShadows)
         THEN Throw(Err("Error",
                        MsgNotEnoughPortions
                            \o ToStr(decryptedSecretOrDocumentKeyPortions) \o <<",">>
                            \o ToStr(commonPoint) \o <<",">>
                            \o ToStr(decryptShadows) \o <<")">>,
                        Undef))
         ELSE shadowDecryptSend(account, pwd, encryptedDocument,
                                decryptedSecretOrDocumentKeyPortions,
                                commonPoint, decryptShadows)
    ELSE shadowDecryptSend(account, pwd, encryptedDocument,
                           Get(decryptedSecretOrDocumentKeyPortions, "decrypted_secret"),
                           Get(decryptedSecretOrDocumentKeyPortions, "common_point"),
                           Get(decryptedSecretOrDocumentKeyPortions, "decrypt_shadows"))

shadowDecryptPlan(account, pwd, encryptedDocument, decryptedSecretOrDocumentKeyPortions, commonPoint, decryptShadows) ==
    IF Falsy(decryptedSecretOrDocumentKeyPortions)
    THEN Throw(Err("Error", MsgNoPortions, Undef))
    ELSE IF IsString(decryptedSecretOrDocumentKeyPortions)
    THEN IF \/ Falsy(commonPoint)
            \/ Falsy(decryptShadows)
            \/ (decryptShadows.t = "array" /\ Len(decryptShadows.a) = 0)
         THEN Throw(Err("Error",
                        MsgNotEnoughPortions
                            \o ToStr(decryptedSecretOrDocumentKeyPortions) \o <<",">>
                            \o ToStr(commonPoint) \o <<",">>
                            \o ToStr(decryptShadows) \o <<")">>,
                        Undef))
         ELSE shadowDecryptSend(account, pwd, encryptedDocument,
                                decryptedSecretOrDocumentKeyPortions,
                                commonPoint, decryptShadows)
    ELSE shadowDecryptSend(account, pwd, encryptedDocument,
                           Get(decryptedSecretOrDocumentKeyPortions, "decrypted_secret"),
                           Get(decryptedSecretOrDocumentKeyPortions, "common_point"),
                           Get(decryptedSecretOrDocumentKeyPortions, "decrypt_shadows"))

serversSetHashPlan(nodeIDs) ==
    RpcSend("secretstore_serversSetHash", <<nodeIDs>>)

\* an operation of the RPC client runs to its await: it throws, or _send hands
\* one request to provider.send
RpcInvoke(c, op, args, plan) ==
    /\ Instance("rpc")
    /\ Free(c)
    /\ calls' = [calls EXCEPT ![c] =
            IF plan.kind = "throw"
            THEN Thrown("rpc", op, args, plan.v)
            ELSE Started("rpc", op, args,
                         [provider |-> provider, method |-> plan.method,
                          params |-> plan.params])]
    /\ UNCHANGED clientVars

signRawHash(c, account, pwd, rawhash) ==
    RpcInvoke(c, "signRawHash", <<account, pwd, rawhash>>,
              signRawHashPlan(account, pwd, rawhash))

generateDocumentKey(c, account, pwd, serverKey) ==
    RpcInvoke(c, "generateDocumentKey", <<account, pwd, serverKey>>,
              generateDocumentKeyPlan(account, pwd, serverKey))

encrypt(c, account, pwd, hexDocument, encryptedDocumentKey) ==
    RpcInvoke(c, "encrypt", <<account, pwd, hexDocument, encryptedDocumentKey>>,
              encryptPlan(account, pwd, hexDocument, encryptedDocumentKey))

decrypt(c, account, pwd, encryptedDocument, encryptedDocumentKey) ==
    RpcInvoke(c, "decrypt", <<account, pwd, encryptedDocument, encryptedDocumentKey>>,
              decryptPlan(account, pwd, encryptedDocument, encryptedDocumentKey))

shadowDecrypt(c, account, pwd, encryptedDocument, decryptedSecretOrDocumentKeyPortions, commonPoint, decryptShadows) ==
    RpcInvoke(c, "shadowDecrypt",
              <<account, pwd, encryptedDocument, decryptedSecretOrDocumentKeyPortions,
                commonPoint, decryptShadows>>,
              shadowDecryptPlan(account, pwd, encryptedDocument,
                                decryptedSecretOrDocumentKeyPortions,
                                commonPoint, decryptShadows))

serversSetHash(c, nodeIDs) ==
    RpcInvoke(c, "serversSetHash", <<nodeIDs>>, serversSetHashPlan(nodeIDs))

\* _send after its await: provider.send's rejection propagates, a result with
\* a truthy error property becomes a new Error, any other result is returned
rpcSendCompletion(r) ==
    IF r.kind = "throw" THEN r
    ELSE IF r.v.t \in {"undefined", "null"} THEN Throw(TypeError)
    ELSE IF ~Falsy(Get(r.v, "error"))
    THEN Throw(Err("Error", ToStr(Get(r.v, "error")), Undef))
    ELSE Return(r.v)

\* provider.send settles the promise it returned for the request of a pending
\* RPC call with r; _send has yet to resume
rpcAnswer(c, r) ==
    /\ calls[c].st = "pending"
    /\ calls[c].client = "rpc"
    /\ calls[c].resp = NoOutcome
    /\ calls' = [calls EXCEPT ![c].resp = r]
    /\ UNCHANGED clientVars

\* _send resumes after its await on the answered request and completes: the
\* promise _send returned settles, the operation's promise is still pending
rpcSendReturns(c) ==
    /\ calls[c].st = "pending"
    /\ calls[c].client = "rpc"
    /\ calls[c].resp # NoOutcome
    /\ calls[c].send = NoOutcome
    /\ calls' = [calls EXCEPT ![c].send = rpcSendCompletion(calls[c].resp)]
    /\ UNCHANGED clientVars

\* the operation's promise adopts the promise _send returned and settles as
\* it did
rpcSettle(c) ==
    /\ calls[c].st = "pending"
    /\ calls[c].client = "rpc"
    /\ calls[c].send # NoOutcome
    /\ calls' = [calls EXCEPT ![c] = Settled(@, @.resp, @.send)]
    /\ UNCHANGED clientVars

----------------------------------------------------------------------------
(* lib/secretstore/session.js : Session (legacy), with lib/utils.js *)

\* utils.remove0x of lib/utils.js: the value's string without a leading 0x
utils_remove0x(val) ==
    IF val.t \in {"undefined", "null"} THEN <<>>
    ELSE IF StartsWith(ToStr(val), Prefix0x)
    THEN SubSeq(ToStr(val), 3, Len(ToStr(val)))
    ELSE ToStr(val)

\* utils.add0x of lib/utils.js, on a string
utils_add0x(str) ==
    IF ~StartsWith(str, Prefix0x) THEN Prefix0x \o str ELSE str

\* utils.removeEnclosingDQuotes of lib/utils.js: the same replace as lib/utils.ts
utils_removeEnclosingDQuotes(str) ==
    IF /\ Len(str) >= 2 /\ str[1] = "\"" /\ str[Len(str)] = "\""
       /\ \A i \in 2..(Len(str) - 1) : str[i] \notin LineTerminators
    THEN SubSeq(str, 2, Len(str) - 1) ELSE str

MsgNoEndpointUri ==
    <<"S", "e", "c", "r", "e", "t", " ", "S", "t", "o", "r", "e", " ", "e", "n", "p", "o", "i", "n", "t", " ", "U", "R", "I", " ", "w", "a", "s", " ", "n", "o", "t", " ", "g", "i", "v", "e", "n", ",", " ", "o", "r", " ", "i", "n", "v", "a", "l", "i", "d", ":", " ">>

\* new Session(ss_endpoint_uri): the instance's field, or the error thrown
Session(ss_endpoint_uri) ==
    IF Falsy(ss_endpoint_uri)
    THEN Throw(Err("Error", MsgNoEndpointUri \o ToStr(ss_endpoint_uri), Undef))
    ELSE IF ~IsString(ss_endpoint_uri) THEN Throw(TypeError)
    ELSE IF EndsWith(ss_endpoint_uri.s, <<"/">>)
    THEN Return([uri |-> SubSeq(ss_endpoint_uri.s, 1, Len(ss_endpoint_uri.s) - 1)])
    ELSE Return([uri |-> ss_endpoint_uri.s])

MsgRequestFailed ==
    <<"R", "e", "q", "u", "e", "s", "t", " ", "f", "a", "i", "l", "e", "d", ".">>

\* the legacy SecretStoreSessionError: it carries the response, not a meta
LegacySessionError(message, response) ==
    [Err("SecretStoreSessionError", message, Undef) EXCEPT !.response = response]

\* the ReferenceError of reading the undeclared variable e
ReferenceError == Err("ReferenceError", <<>>, Undef)

MethodPOST == Str(<<"P", "O", "S", "T">>)

PathServersSetChange ==
    <<"/", "a", "d", "m", "i", "n", "/", "s", "e", "r", "v", "e", "r", "s", "_", "s", "e", "t", "_", "c", "h", "a", "n", "g", "e">>

\* the verbose parameter, true by default
Verbose(verbose) == IF verbose = Undef THEN TRUE ELSE ~Falsy(verbose)

\* the promise executor of a legacy operation runs at the call: it hands the
\* options to request()
LegacyInvoke(c, op, args, options) ==
    /\ Instance("legacy")
    /\ Free(c)
    /\ calls' = [calls EXCEPT ![c] = Started("legacy", op, args, options)]
    /\ UNCHANGED clientVars

\* the options of Session.nodesSetChange
Session_nodesSetChangeOptions(nodeIDsNewSet, signatureOldSet, signatureNewSet) ==
    [url |-> Str(uri \o PathServersSetChange
                     \o Slash \o utils_remove0x(signatureOldSet)
                     \o Slash \o utils_remove0x(signatureNewSet)),
     method |-> MethodPOST,
     body |-> Str(JsonStringify(nodeIDsNewSet))]

Session_nodesSetChange(c, nodeIDsNewSet, signatureOldSet, signatureNewSet, verbose) ==
    LegacyInvoke(c, "Session.nodesSetChange",
                 <<nodeIDsNewSet, signatureOldSet, signatureNewSet, verbose>>,
                 Session_nodesSetChangeOptions(nodeIDsNewSet, signatureOldSet,
                                               signatureNewSet))

MethodGET == Str(<<"G", "E", "T">>)

\* the options of the other operations of Session: a url and a method
Session_generateServerKeyOptions(serverKeyID, signedServerKeyID, threshold) ==
    [url |-> Str(uri \o PathShadow \o utils_remove0x(serverKeyID)
                     \o Slash \o utils_remove0x(signedServerKeyID)
                     \o Slash \o ToStr(threshold)),
     method |-> MethodPOST]

Session_generateServerAndDocumentKeyOptions(serverKeyID, signedServerKeyID, threshold) ==
    [url |-> Str(uri \o Slash \o utils_remove0x(serverKeyID)
                     \o Slash \o utils_remove0x(signedServerKeyID)
                     \o Slash \o ToStr(threshold)),
     method |-> MethodPOST]

Session_shadowRetrieveDocumentKeyOptions(serverKeyID, signedServerKeyID) ==
    [url |-> Str(uri \o PathShadow \o utils_remove0x(serverKeyID)
                     \o Slash \o utils_remove0x(signedServerKeyID)),
     method |-> MethodGET]

Session_retrieveDocumentKeyOptions(serverKeyID, signedServerKeyID) ==
    [url |-> Str(uri \o Slash \o utils_remove0x(serverKeyID)
                     \o Slash \o utils_remove0x(signedServerKeyID)),
     method |-> MethodGET]

Session_signSchnorrOptions(serverKeyID, signedServerKeyID, messageHash) ==
    [url |-> Str(uri \o PathSchnorr \o utils_remove0x(serverKeyID)
                     \o Slash \o utils_remove0x(signedServerKeyID)
                     \o Slash \o ToStr(messageHash)),
     method |-> MethodGET]

Session_signEcdsaOptions(serverKeyID, signedServerKeyID, messageHash) ==
    [url |-> Str(uri \o PathEcdsa \o utils_remove0x(serverKeyID)
                     \o Slash \o utils_remove0x(signedServerKeyID)
                     \o Slash \o ToStr(messageHash)),
     method |-> MethodGET]

Session_storeDocumentKeyOptions(serverKeyID, signedServerKeyID, commonPoint, encryptedPoint) ==
    [url |-> Str(uri \o PathShadow \o utils_remove0x(serverKeyID)
                     \o Slash \o utils_remove0x(signedServerKeyID)
                     \o Slash \o utils_remove0x(commonPoint)
                     \o Slash \o utils_remove0x(encryptedPoint)),
     method |-> MethodPOST]

Session_generateServerKey(c, serverKeyID, signedServerKeyID, threshold, verbose) ==
    LegacyInvoke(c, "Session.generateServerKey",
                 <<serverKeyID, signedServerKeyID, threshold, verbose>>,
                 Session_generateServerKeyOptions(serverKeyID, signedServerKeyID, threshold))

Session_generateServerAndDocumentKey(c, serverKeyID, signedServerKeyID, threshold, verbose) ==
    LegacyInvoke(c, "Session.generateServerAndDocumentKey",
                 <<serverKeyID, signedServerKeyID, threshold, verbose>>,
                 Session_generateServerAndDocumentKeyOptions(serverKeyID, signedServerKeyID,
                                                             threshold))

Session_shadowRetrieveDocumentKey(c, serverKeyID, signedServerKeyID, verbose) ==
    LegacyInvoke(c, "Session.shadowRetrieveDocumentKey",
                 <<serverKeyID, signedServerKeyID, verbose>>,
                 Session_shadowRetrieveDocumentKeyOptions(serverKeyID, signedServerKeyID))

Session_retrieveDocumentKey(c, serverKeyID, signedServerKeyID, verbose) ==
    LegacyInvoke(c, "Session.retrieveDocumentKey",
                 <<serverKeyID, signedServerKeyID, verbose>>,
                 Session_retrieveDocumentKeyOptions(serverKeyID, signedServerKeyID))

Session_signSchnorr(c, serverKeyID, signedServerKeyID, messageHash, verbose) ==
    LegacyInvoke(c, "Session.signSchnorr",
                 <<serverKeyID, signedServerKeyID, messageHash, verbose>>,
                 Session_signSchnorrOptions(serverKeyID, signedServerKeyID, messageHash))

Session_signEcdsa(c, serverKeyID, signedServerKeyID, messageHash, verbose) ==
    LegacyInvoke(c, "Session.signEcdsa",
                 <<serverKeyID, signedServerKeyID, messageHash, verbose>>,
                 Session_signEcdsaOptions(serverKeyID, signedServerKeyID, messageHash))

Session_storeDocumentKey(c, serverKeyID, signedServerKeyID, commonPoint, encryptedPoint, verbose) ==
    LegacyInvoke(c, "Session.storeDocumentKey",
                 <<serverKeyID, signedServerKeyID, commonPoint, encryptedPoint, verbose>>,
                 Session_storeDocumentKeyOptions(serverKeyID, signedServerKeyID,
                                                 commonPoint, encryptedPoint))

\* the SyntaxError JSON.parse throws for a text that is no JSON
SyntaxError == Err("SyntaxError", <<>>, Undef)

Digits == {"0", "1", "2", "3", "4", "5", "6", "7", "8", "9"}

RECURSIVE NumberOf(_)
\* the number a text of decimal digits denotes
NumberOf(text) ==
    IF text = <<>> THEN 0
    ELSE 10 * NumberOf(SubSeq(text, 1, Len(text) - 1))
         + (CHOOSE d \in 0..9 : DigitChars[d + 1] = text[Len(text)])

\* JSON.parse(text) for the texts of the model: a string without escapes, a
\* natural number, null, {} and []; any other text of theirs is no JSON
JsonParse(text) ==
    IF /\ Len(text) >= 2 /\ text[1] = "\"" /\ text[Len(text)] = "\""
       /\ \A i \in 2..(Len(text) - 1) : text[i] \notin {"\"", "\\", "\n", "\r"}
    THEN Return(Str(SubSeq(text, 2, Len(text) - 1)))
    ELSE IF /\ text # <<>>
            /\ \A i \in 1..Len(text) : text[i] \in Digits
            /\ (Len(text) > 1 => text[1] # "0")
    THEN Return(Num(NumberOf(text)))
    ELSE IF text = <<"n", "u", "l", "l">> THEN Return(Null)
    ELSE IF text = <<"{", "}">> THEN Return(Obj(<<>>))
    ELSE IF text = <<"[", "]">> THEN Return(Arr(<<>>))
    ELSE Throw(SyntaxError)

\* what request() hands to the callback: (error, response, body)
Callback(error, response, body) ==
    [error |-> error, response |-> response, body |-> body]

\* the response object of request()
LegacyResponse(statusCode, statusMessage) ==
    [t |-> "response", statusCode |-> Num(statusCode),
     statusMessage |-> Str(statusMessage)]

\* the operations whose callback resolves with the body unquoted
LegacyUnquotingOps ==
    {"Session.generateServerKey", "Session.generateServerAndDocumentKey",
     "Session.retrieveDocumentKey", "Session.signSchnorr", "Session.signEcdsa",
     "Session.nodesSetChange"}

\* what the callback of a legacy operation does to the promise: it settles it,
\* or it throws before resolve or reject is reached ("none"): the
\* ReferenceError of utils.logError(e), the TypeError of a body without
\* replace, the SyntaxError of JSON.parse
Session_callbackCompletion(op, verbose, r) ==
    IF ~Falsy(r.error)
    THEN IF Verbose(verbose) THEN NoOutcome ELSE Throw(r.error)
    ELSE IF r.response.statusCode # Num(200)
    THEN Throw(LegacySessionError(MsgRequestFailed, r.response))
    ELSE IF op \in LegacyUnquotingOps
    THEN IF IsString(r.body)
         THEN Return(Str(utils_removeEnclosingDQuotes(r.body.s)))
         ELSE NoOutcome
    ELSE IF op = "Session.shadowRetrieveDocumentKey"
    THEN IF IsString(r.body) /\ JsonParse(r.body.s).kind = "return"
         THEN JsonParse(r.body.s)
         ELSE NoOutcome
    ELSE Return(r.body)

\* request() calls back for the pending legacy call in slot c; a callback that
\* throws leaves the promise pending for ever
Session_callback(c, r) ==
    /\ calls[c].st = "pending"
    /\ calls[c].client = "legacy"
    /\ calls[c].resp = NoOutcome
    /\ LET call == calls[c]
           o == Session_callbackCompletion(call.op, call.args[Len(call.args)], r)
           answer == IF ~Falsy(r.error) THEN Throw(r.error) ELSE Return(r)
       IN calls' = [calls EXCEPT ![c] =
               IF o = NoOutcome THEN [call EXCEPT !.resp = answer]
               ELSE Settled(call, answer, o)]
    /\ UNCHANGED clientVars

----------------------------------------------------------------------------
(* The values callers pass and the transports deliver *)

\* the endpoint URLs the session client is constructed with
Endpoints == {<<"h", "/">>, <<"s">>}

NoConfig ==
    [url |-> Undef, method |-> Undef, data |-> Undef, timeout |-> Undef]

\* the default request configurations the session client is constructed with
RequestConfigs ==
    {NoConfig,
     [url |-> Str(<<"u">>), method |-> Str(<<"p", "u", "t">>),
      data |-> Str(<<"d">>), timeout |-> Num(5)]}

\* what the RPC client is constructed with: a url string or a provider handle
RpcEndpoints ==
    {Str(<<"r">>), [t |-> "provider", url |-> <<"p">>, created |-> FALSE]}

\* server key ids: with the prefix, without it, and with the prefix twice
ServerKeyIDs ==
    {Str(<<"0", "x", "d", "e">>), Str(<<"a", "d">>),
     Str(<<"0", "x", "0", "x", "d", "e">>)}

SignedServerKeyIDs == {Str(<<"0", "x", "b", "e">>), Str(<<"e", "f">>)}

Thresholds == {Num(1), Num(2), Num(MaxThreshold)}

MessageHashes == {Str(<<"0", "x", "a", "a">>), Str(<<"b", "b">>)}

\* a common point, encrypted point or decrypted secret: absent, empty or hex
Points ==
    {Undef, Str(<<>>), Str(<<"0", "x", "c", "1">>), Str(<<"c", "2">>)}

EncryptedKeys == {Str(<<"0", "x", "e", "7">>)}

\* ExternallyEncryptedDocumentKey objects, complete or with portions missing
DocumentKeys ==
    {Obj([common_point |-> cp, encrypted_key |-> ek, encrypted_point |-> ep]) :
        cp \in Points, ek \in EncryptedKeys, ep \in Points}

NodeIDs == {Str(<<"0", "x", "n", "1">>), Str(<<"n", "2">>)}

\* the arrays of at most MaxShadows node ids or decrypt shadows
Arrays ==
    {Arr(a) : a \in UNION {[1..n -> NodeIDs] : n \in 0..MaxShadows}}

\* DocumentKeyPortions objects, complete or with portions missing
DocumentKeyPortions ==
    {Obj([decrypted_secret |-> ds, common_point |-> cp, decrypt_shadows |-> sh]) :
        ds \in Points, cp \in Points, sh \in Arrays \cup {Undef}}

Accounts == {Str(<<"0", "x", "a", "c">>)}

Passwords == {Str(<<"p", "w">>)}

\* hex strings handed to the RPC client, and an absent one
HexInputs == {Str(<<"0", "x", "d", "0">>), Str(<<"d", "1">>), Undef}

DocumentKeyHexes == {Str(<<"0", "x", "e", "0">>), Str(<<"e", "1">>)}

\* response bodies: empty, bare, quoted, quoted with an inner quote, a lone
\* quote, quoted over two lines, and a body axios decoded from JSON
Bodies ==
    {Str(<<>>),
     Str(<<"a", "b">>),
     Str(<<"\"", "a", "b", "\"">>),
     Str(<<"\"", "a", "\"", "b", "\"">>),
     Str(<<"\"">>),
     Str(<<"\"", "a", "\n", "b", "\"">>),
     Obj([decrypted_secret |-> Str(<<"5", "e">>),
          common_point |-> Str(<<"c", "2">>),
          decrypt_shadows |-> Arr(<<Str(<<"n", "2">>)>>)])}

TextOK ==
    <<"O", "K">>

TextNotFound ==
    <<"N", "o", "t", " ", "F", "o", "u", "n", "d">>

TextServerError ==
    <<"I", "n", "t", "e", "r", "n", "a", "l", " ", "S", "e", "r", "v", "e", "r", " ", "E", "r", "r", "o", "r">>

TextRequestFailed ==
    <<"R", "e", "q", "u", "e", "s", "t", " ", "f", "a", "i", "l", "e", "d", " ", "w", "i", "t", "h", " ", "s", "t", "a", "t", "u", "s", " ", "c", "o", "d", "e", " ">>

TextConnRefused ==
    <<"c", "o", "n", "n", "e", "c", "t", " ", "E", "C", "O", "N", "N", "R", "E", "F", "U", "S", "E", "D">>

TextCancelled ==
    <<"c", "a", "n", "c", "e", "l", "l", "e", "d">>

\* the statuses axios rejects, with their status texts
FailureStatuses == {<<404, TextNotFound>>, <<500, TextServerError>>}

\* how axios can settle the request with configuration req: a 2xx response, an
\* error carrying a non-2xx response, an error of its own without a response
\* (connection refused, DNS failure, timeout), or an error that is not axios's
\* (a cancellation)
SessionTransportOutcomes(req) ==
    {Return(Response(200, TextOK, d, req)) : d \in Bodies}
    \cup {Throw(AxiosError(TextRequestFailed \o Decimal(s[1]),
                           Response(s[1], s[2], d, req))) :
            s \in FailureStatuses, d \in Bodies}
    \cup {Throw(AxiosError(TextConnRefused, Undef)),
          Throw(Err("Cancel", TextCancelled, Undef))}

\* how provider.send can settle: with a result, or with the provider's error
RpcTransportOutcomes ==
    {Return(v) : v \in {Str(<<"0", "x", "a", "b">>), Null,
                        Obj([error |-> Str(<<"b", "a", "d">>)]),
                        Obj([common_point |-> Str(<<"c", "2">>),
                             encrypted_key |-> Str(<<"e", "7">>),
                             encrypted_point |-> Str(<<"c", "1">>)])}}
    \cup {Throw(Err("Error", TextConnRefused, Undef))}

----------------------------------------------------------------------------
(* The clients in use.  A slot holds one invocation of one operation, from   *)
(* the call to the settlement of its promise.  No action writes url,        *)
(* requestConfig or provider, so an invocation meets the same client        *)
(* whatever was called before it.                                           *)

Slots == {1}

\* the verbose arguments of the legacy operations: left out, false or true
Verbosities == {Undef, Bool(FALSE), Bool(TRUE)}

\* the bodies request() delivers to the legacy client: empty, a quoted string,
\* an empty JSON object
LegacyBodies == {Str(<<>>), Str(<<"\"", "a", "b", "\"">>), Str(<<"{", "}">>)}

\* how request() can call back: with an error, or with a response and its body
LegacyTransportOutcomes ==
    {Callback(Err("Error", TextConnRefused, Undef), Undef, Undef)}
    \cup {Callback(Null, LegacyResponse(s[1], s[2]), b) :
            s \in {<<200, TextOK>>, <<404, TextNotFound>>}, b \in LegacyBodies}

\* the three clients as their constructors leave them for the given
\* arguments, and no operation called yet in any of the slots
Constructed(ssEndpointUrl, config, ssLocalAPIEndpoint, ss_endpoint_uri, slots) ==
    LET s == sessionConstructor(ssEndpointUrl, config)
        r == rpcConstructor(ssLocalAPIEndpoint)
        l == Session(ss_endpoint_uri)
    IN /\ constructed =
              [session |-> [args |-> <<ssEndpointUrl, config>>, out |-> s],
               rpc |-> [args |-> <<ssLocalAPIEndpoint>>, out |-> r],
               legacy |-> [args |-> <<ss_endpoint_uri>>, out |-> l]]
       /\ url = IF s.kind = "return" THEN s.v.url ELSE <<>>
       /\ requestConfig = IF s.kind = "return" THEN s.v.requestConfig ELSE NoConfig
       /\ provider = IF r.kind = "return" THEN r.v.provider ELSE Undef
       /\ uri = IF l.kind = "return" THEN l.v.uri ELSE <<>>
       /\ calls = [c \in slots |-> IdleCall]

\* the endpoint URI the legacy client is constructed with
LegacyEndpoints == {<<"l", "/">>}

Init ==
    \E e \in Endpoints, config \in RequestConfigs, r \in RpcEndpoints, l \in LegacyEndpoints :
        Constructed(Str(e), config, r, Str(l), Slots)

\* the transport answers the request of the pending session call in slot c
sessionResponse(c) ==
    /\ calls[c].st = "pending"
    /\ calls[c].client = "session"
    /\ \E r \in SessionTransportOutcomes(calls[c].sent[Len(calls[c].sent)]) :
          sessionAnswer(c, r)

\* the provider answers the request of the pending RPC call in slot c
rpcResponse(c) ==
    \E r \in RpcTransportOutcomes : rpcAnswer(c, r)

\* one step: an operation is called in a free slot, a transport answers a
\* request, the _send of an answered request completes, or the promise of an
\* operation whose _send completed settles
Next ==
    \/ \E c \in DOMAIN calls : Free(c) /\ \E id \in ServerKeyIDs, sig \in SignedServerKeyIDs, th \in Thresholds :
          generateServerKey(c, id, sig, th)
    \/ \E c \in DOMAIN calls : Free(c) /\ \E id \in ServerKeyIDs, sig \in SignedServerKeyIDs :
          retrieveServerKeyPublic(c, id, sig)
    \/ \E c \in DOMAIN calls : Free(c) /\ \E id \in ServerKeyIDs, sig \in SignedServerKeyIDs, cp \in Points, ep \in Points :
          storeDocumentKey(c, id, sig, cp, ep)
    \/ \E c \in DOMAIN calls : Free(c) /\ \E id \in ServerKeyIDs, sig \in SignedServerKeyIDs, key \in DocumentKeys :
          storeDocumentKey(c, id, sig, key, Undef)
    \/ \E c \in DOMAIN calls : Free(c) /\ \E id \in ServerKeyIDs, sig \in SignedServerKeyIDs, th \in Thresholds :
          generateServerAndDocumentKey(c, id, sig, th)
    \/ \E c \in DOMAIN calls : Free(c) /\ \E id \in ServerKeyIDs, sig \in SignedServerKeyIDs :
          shadowRetrieveDocumentKey(c, id, sig)
    \/ \E c \in DOMAIN calls : Free(c) /\ \E id \in ServerKeyIDs, sig \in SignedServerKeyIDs :
          retrieveDocumentKey(c, id, sig)
    \/ \E c \in DOMAIN calls : Free(c) /\ \E id \in ServerKeyIDs, sig \in SignedServerKeyIDs, h \in MessageHashes :
          signSchnorr(c, id, sig, h)
    \/ \E c \in DOMAIN calls : Free(c) /\ \E id \in ServerKeyIDs, sig \in SignedServerKeyIDs, h \in MessageHashes :
          signEcdsa(c, id, sig, h)
    \/ \E c \in DOMAIN calls : Free(c) /\ \E set \in Arrays, old \in SignedServerKeyIDs, new \in SignedServerKeyIDs :
          nodesSetChange(c, set, old, new)
    \/ \E c \in DOMAIN calls :
          sessionResponse(c)
    \/ \E c \in DOMAIN calls :
          sessionSendReturns(c)
    \/ \E c \in DOMAIN calls :
          sessionSettle(c)
    \/ \E c \in DOMAIN calls : Free(c) /\ \E a \in Accounts, p \in Passwords, h \in HexInputs :
          signRawHash(c, a, p, h)
    \/ \E c \in DOMAIN calls : Free(c) /\ \E a \in Accounts, p \in Passwords, k \in HexInputs :
          generateDocumentKey(c, a, p, k)
    \/ \E c \in DOMAIN calls : Free(c) /\ \E a \in Accounts, p \in Passwords, d \in HexInputs, k \in DocumentKeyHexes :
          encrypt(c, a, p, d, k)
    \/ \E c \in DOMAIN calls : Free(c) /\ \E a \in Accounts, p \in Passwords, d \in HexInputs, k \in DocumentKeyHexes :
          decrypt(c, a, p, d, k)
    \/ \E c \in DOMAIN calls : Free(c) /\ \E a \in Accounts, p \in Passwords, d \in DocumentKeyHexes, ds \in Points, cp \in Points, sh \in Arrays \cup {Undef} :
          shadowDecrypt(c, a, p, d, ds, cp, sh)
    \/ \E c \in DOMAIN calls : Free(c) /\ \E a \in Accounts, p \in Passwords, d \in DocumentKeyHexes, portions \in DocumentKeyPortions :
          shadowDecrypt(c, a, p, d, portions, Undef, Undef)
    \/ \E c \in DOMAIN calls : Free(c) /\ \E set \in Arrays :
          serversSetHash(c, set)
    \/ \E c \in DOMAIN calls :
          rpcResponse(c)
    \/ \E c \in DOMAIN calls :
          rpcSendReturns(c)
    \/ \E c \in DOMAIN calls :
          rpcSettle(c)
    \/ \E c \in DOMAIN calls : Free(c) /\ \E set \in Arrays, old \in SignedServerKeyIDs, new \in SignedServerKeyIDs, verbose \in Verbosities :
          Session_nodesSetChange(c, set, old, new, verbose)
    \/ \E c \in DOMAIN calls : Free(c) /\ \E id \in ServerKeyIDs, sig \in SignedServerKeyIDs, th \in Thresholds, verbose \in Verbosities :
          Session_generateServerKey(c, id, sig, th, verbose)
    \/ \E c \in DOMAIN calls : Free(c) /\ \E id \in ServerKeyIDs, sig \in SignedServerKeyIDs, th \in Thresholds, verbose \in Verbosities :
          Session_generateServerAndDocumentKey(c, id, sig, th, verbose)
    \/ \E c \in DOMAIN calls : Free(c) /\ \E id \in ServerKeyIDs, sig \in SignedServerKeyIDs, verbose \in Verbosities :
          Session_shadowRetrieveDocumentKey(c, id, sig, verbose)
    \/ \E c \in DOMAIN calls : Free(c) /\ \E id \in ServerKeyIDs, sig \in SignedServerKeyIDs, verbose \in Verbosities :
          Session_retrieveDocumentKey(c, id, sig, verbose)
    \/ \E c \in DOMAIN calls : Free(c) /\ \E id \in ServerKeyIDs, sig \in SignedServerKeyIDs, h \in MessageHashes, verbose \in Verbosities :
          Session_signSchnorr(c, id, sig, h, verbose)
    \/ \E c \in DOMAIN calls : Free(c) /\ \E id \in ServerKeyIDs, sig \in SignedServerKeyIDs, h \in MessageHashes, verbose \in Verbosities :
          Session_signEcdsa(c, id, sig, h, verbose)
    \/ \E c \in DOMAIN calls : Free(c) /\ \E id \in ServerKeyIDs, sig \in SignedServerKeyIDs, cp \in Points, ep \in Points, verbose \in Verbosities :
          Session_storeDocumentKey(c, id, sig, cp, ep, verbose)
    \/ \E c \in DOMAIN calls, r \in LegacyTransportOutcomes :
          Session_callback(c, r)

Spec == Init /\ [][Next]_vars

----------------------------------------------------------------------------
(* The clients under every constructor argument, and several invocations in *)
(* flight at once.  These specifications draw each operation's arguments    *)
(* from a few values, so that the constructor arguments and the order of    *)
(* calls and answers can vary instead.                                      *)

\* the most invocations made on the clients of SpecConcurrent
MaxInFlight == 2

\* what a session or legacy client can be constructed with: a URL (also one of
\* slashes only or ending in two), nothing, ""
EndpointArgs ==
    {Str(e) : e \in Endpoints}
    \cup {Str(<<"h", "/", "/">>), Str(<<"/">>), Undef, Str(<<>>)}

\* what the RPC client can be constructed with
RpcEndpointArgs == RpcEndpoints \cup {Undef, Str(<<>>)}

\* the clients after construction with any arguments, no operation called
InitAnyConstruction ==
    \E e \in EndpointArgs, config \in RequestConfigs, r \in RpcEndpointArgs, l \in EndpointArgs :
        Constructed(e, config, r, l, Slots)

\* the clients constructed with one set of valid arguments, and MaxInFlight
\* invocations to be made
InitConcurrent ==
    Constructed(Str(<<"h", "/">>),
                [NoConfig EXCEPT !.url = Str(<<"u">>), !.timeout = Num(5)],
                Str(<<"r">>), Str(<<"l", "/">>), 1..MaxInFlight)

AnID == Str(<<"0", "x", "d", "e">>)

ASig == Str(<<"0", "x", "b", "e">>)

AHash == Str(<<"0", "x", "a", "a">>)

APoint == Str(<<"0", "x", "c", "1">>)

AKey ==
    Obj([common_point |-> Str(<<"0", "x", "c", "1">>),
         encrypted_key |-> Str(<<"0", "x", "e", "7">>),
         encrypted_point |-> Str(<<"c", "2">>)])

SomeNodes == Arr(<<Str(<<"0", "x", "n", "1">>), Str(<<"n", "2">>)>>)

SomePortions ==
    Obj([decrypted_secret |-> Str(<<"c", "2">>),
         common_point |-> Str(<<"0", "x", "c", "1">>),
         decrypt_shadows |-> SomeNodes])

AnAccount == Str(<<"0", "x", "a", "c">>)

APassword == Str(<<"p", "w">>)

AHexDocument == Str(<<"d", "1">>)

ADocumentKey == Str(<<"0", "x", "e", "0">>)

\* the answers of the HTTP transport to a request: success, or a failure status
FewSessionOutcomes(req) ==
    {Return(Response(200, TextOK, Str(<<"\"", "a", "b", "\"">>), req)),
     Throw(AxiosError(TextRequestFailed \o Decimal(500),
                      Response(500, TextServerError, Str(<<"\"", "a", "b", "\"">>), req)))}

\* the answers of a provider to a request: a result that echoes the request's
\* last parameter, or the provider's error
FewRpcOutcomes(req) ==
    {Return(req.params[Len(req.params)]),
     Throw(Err("Error", TextConnRefused, Undef))}

\* the answers of request() to the legacy client: success, or a failure status
FewLegacyOutcomes ==
    {Callback(Null, LegacyResponse(200, TextOK), Str(<<"\"", "a", "b", "\"">>)),
     Callback(Null, LegacyResponse(404, TextNotFound), Str(<<>>))}

sessionResponseFew(c) ==
    /\ calls[c].st = "pending"
    /\ calls[c].client = "session"
    /\ \E r \in FewSessionOutcomes(calls[c].sent[Len(calls[c].sent)]) :
          sessionAnswer(c, r)

rpcResponseFew(c) ==
    /\ calls[c].st = "pending"
    /\ calls[c].client = "rpc"
    /\ \E r \in FewRpcOutcomes(calls[c].sent[Len(calls[c].sent)]) :
          rpcAnswer(c, r)

NextFew ==
    \/ \E c \in DOMAIN calls : generateServerKey(c, AnID, ASig, Num(1))
    \/ \E c \in DOMAIN calls : retrieveServerKeyPublic(c, AnID, ASig)
    \/ \E c \in DOMAIN calls, ep \in {Undef, Str(<<"c", "2">>)} :
          storeDocumentKey(c, AnID, ASig, APoint, ep)
    \/ \E c \in DOMAIN calls : storeDocumentKey(c, AnID, ASig, AKey, Undef)
    \/ \E c \in DOMAIN calls : generateServerAndDocumentKey(c, AnID, ASig, Num(1))
    \/ \E c \in DOMAIN calls : shadowRetrieveDocumentKey(c, AnID, ASig)
    \/ \E c \in DOMAIN calls : retrieveDocumentKey(c, AnID, ASig)
    \/ \E c \in DOMAIN calls : signSchnorr(c, AnID, ASig, AHash)
    \/ \E c \in DOMAIN calls : signEcdsa(c, AnID, ASig, AHash)
    \/ \E c \in DOMAIN calls : nodesSetChange(c, SomeNodes, ASig, AHash)
    \/ \E c \in DOMAIN calls : sessionResponseFew(c)
    \/ \E c \in DOMAIN calls : sessionSendReturns(c)
    \/ \E c \in DOMAIN calls : sessionSettle(c)
    \/ \E c \in DOMAIN calls : signRawHash(c, AnAccount, APassword, AHash)
    \/ \E c \in DOMAIN calls : generateDocumentKey(c, AnAccount, APassword, AnID)
    \/ \E c \in DOMAIN calls : encrypt(c, AnAccount, APassword, AHexDocument, ADocumentKey)
    \/ \E c \in DOMAIN calls : decrypt(c, AnAccount, APassword, AHexDocument, ADocumentKey)
    \/ \E c \in DOMAIN calls :
          shadowDecrypt(c, AnAccount, APassword, AHexDocument, APoint, APoint, SomeNodes)
    \/ \E c \in DOMAIN calls :
          shadowDecrypt(c, AnAccount, APassword, AHexDocument, SomePortions, Undef, Undef)
    \/ \E c \in DOMAIN calls : serversSetHash(c, SomeNodes)
    \/ \E c \in DOMAIN calls : rpcResponseFew(c)
    \/ \E c \in DOMAIN calls : rpcSendReturns(c)
    \/ \E c \in DOMAIN calls : rpcSettle(c)
    \/ \E c \in DOMAIN calls : Session_nodesSetChange(c, SomeNodes, ASig, AHash, Bool(FALSE))
    \/ \E c \in DOMAIN calls, r \in FewLegacyOutcomes : Session_callback(c, r)

\* the clients under every constructor argument, one invocation
SpecConstruction == InitAnyConstruction /\ [][NextFew]_vars

\* valid clients with up to MaxInFlight invocations in flight
SpecConcurrent == InitConcurrent /\ [][NextFew]_vars

\* the transports answer every request they were handed: axios and
\* provider.send settle their promises
TransportsAnswer ==
    \A c \in 1..MaxInFlight :
        /\ WF_vars(sessionResponseFew(c))
        /\ WF_vars(rpcResponseFew(c))

\* the continuation of an await runs once the awaited promise has settled: the
\* job queue of promise reactions is always drained
ContinuationsRun ==
    \A c \in 1..MaxInFlight :
        /\ WF_vars(sessionSendReturns(c))
        /\ WF_vars(sessionSettle(c))
        /\ WF_vars(rpcSendReturns(c))
        /\ WF_vars(rpcSettle(c))

\* calls in flight on the two typed clients: session operations that await
\* _send and unquote its value, with and without a request body, session
\* operations that return _send's promise, one of them able to reject before
\* sending, and RPC operations; their transports' answers and the
\* continuations that follow
NextAnswered ==
    \/ \E c \in DOMAIN calls : generateServerKey(c, AnID, ASig, Num(1))
    \/ \E c \in DOMAIN calls, ep \in {Undef, Str(<<"c", "2">>)} :
          storeDocumentKey(c, AnID, ASig, APoint, ep)
    \/ \E c \in DOMAIN calls : shadowRetrieveDocumentKey(c, AnID, ASig)
    \/ \E c \in DOMAIN calls : signEcdsa(c, AnID, ASig, AHash)
    \/ \E c \in DOMAIN calls : nodesSetChange(c, SomeNodes, ASig, AHash)
    \/ \E c \in DOMAIN calls : sessionResponseFew(c)
    \/ \E c \in DOMAIN calls : sessionSendReturns(c)
    \/ \E c \in DOMAIN calls : sessionSettle(c)
    \/ \E c \in DOMAIN calls : signRawHash(c, AnAccount, APassword, AHash)
    \/ \E c \in DOMAIN calls :
          shadowDecrypt(c, AnAccount, APassword, AHexDocument, SomePortions, Undef, Undef)
    \/ \E c \in DOMAIN calls : serversSetHash(c, SomeNodes)
    \/ \E c \in DOMAIN calls : rpcResponseFew(c)
    \/ \E c \in DOMAIN calls : rpcSendReturns(c)
    \/ \E c \in DOMAIN calls : rpcSettle(c)

\* valid clients with up to MaxInFlight invocations in flight, transports that
\* answer and continuations that run
SpecAnswered == InitConcurrent /\ [][NextAnswered]_vars /\ TransportsAnswer /\ ContinuationsRun

----------------------------------------------------------------------------
(* The utilities called on their own: one call of one function on one value *)

\* the longest string a utility is called with
MaxLen == 5

\* the characters of those strings: the two of the prefix, a double quote, a
\* line feed and a letter
Chars == {"0", "x", "\"", "\n", "a"}

\* the strings of at most MaxLen characters
Strings == UNION {[1..n -> Chars] : n \in 0..MaxLen}

\* what a utility can be called with: a string, or an absent value
UtilInputs == {Str(s) : s \in Strings} \cup {Undef, Null}

\* the call remove0x(val) of lib/utils.ts: its value, or what it throws
remove0xCall(val) ==
    IF Falsy(val) THEN Return(Str(<<>>))
    ELSE IF ~IsString(val) THEN Throw(TypeError)
    ELSE Return(Str(remove0x(val)))

\* the call ensure0x(str) of lib/utils.ts: str.startsWith throws on a value
\* that is no string
ensure0xCall(str) ==
    IF ~IsString(str) THEN Throw(TypeError)
    ELSE Return(Str(ensure0x(str.s)))

\* the call removeEnclosingDQuotes(str) of lib/utils.ts
removeEnclosingDQuotesCall(str) ==
    IF ~IsString(str) THEN Throw(TypeError)
    ELSE Return(Str(removeEnclosingDQuotes(str.s)))

\* the call utils.remove0x(val) of lib/utils.js
utils_remove0xCall(val) == Return(Str(utils_remove0x(val)))

\* the call utils.add0x(str) of lib/utils.js
utils_add0xCall(str) ==
    IF ~IsString(str) THEN Throw(TypeError)
    ELSE Return(Str(utils_add0x(str.s)))

\* the call utils.removeEnclosingDQuotes(str) of lib/utils.js
utils_removeEnclosingDQuotesCall(str) ==
    IF ~IsString(str) THEN Throw(TypeError)
    ELSE Return(Str(utils_removeEnclosingDQuotes(str.s)))

\* a utility is called with val in a free slot and completes with o
UtilCall(c, fn, val, o) ==
    /\ Free(c)
    /\ calls' = [calls EXCEPT ![c] =
            [IdleCall EXCEPT !.op = fn,
                             !.client = "utils",
                             !.args = <<val>>,
                             !.st = IF o.kind = "return" THEN "returned" ELSE "threw",
                             !.out = o]]
    /\ UNCHANGED clientVars

Call_remove0x(c, val) == UtilCall(c, "remove0x", val, remove0xCall(val))

Call_ensure0x(c, str) == UtilCall(c, "ensure0x", str, ensure0xCall(str))

Call_removeEnclosingDQuotes(c, str) ==
    UtilCall(c, "removeEnclosingDQuotes", str, removeEnclosingDQuotesCall(str))

Call_utils_remove0x(c, val) ==
    UtilCall(c, "utils.remove0x", val, utils_remove0xCall(val))

Call_utils_add0x(c, str) == UtilCall(c, "utils.add0x", str, utils_add0xCall(str))

Call_utils_removeEnclosingDQuotes(c, str) ==
    UtilCall(c, "utils.removeEnclosingDQuotes", str, utils_removeEnclosingDQuotesCall(str))

\* clients constructed with valid arguments; no utility called yet
InitUtils ==
    Constructed(Str(<<"h", "/">>), NoConfig, Str(<<"r">>), Str(<<"l", "/">>), Slots)

\* a slot is free for a call of a utility on one of the inputs
NextUtils ==
    \/ \E c \in DOMAIN calls : Free(c) /\ \E val \in UtilInputs : Call_remove0x(c, val)
    \/ \E c \in DOMAIN calls : Free(c) /\ \E str \in UtilInputs : Call_ensure0x(c, str)
    \/ \E c \in DOMAIN calls : Free(c) /\ \E str \in UtilInputs : Call_removeEnclosingDQuotes(c, str)
    \/ \E c \in DOMAIN calls : Free(c) /\ \E val \in UtilInputs : Call_utils_remove0x(c, val)
    \/ \E c \in DOMAIN calls : Free(c) /\ \E str \in UtilInputs : Call_utils_add0x(c, str)
    \/ \E c \in DOMAIN calls : Free(c) /\ \E str \in UtilInputs : Call_utils_removeEnclosingDQuotes(c, str)

\* the utilities of lib/utils.ts and lib/utils.js, each called on every input
SpecUtils == InitUtils /\ [][NextUtils]_vars

----------------------------------------------------------------------------
(* Vocabulary of the properties *)

RECURSIVE PathOf(_)
\* the path "/s1/s2/..." of a sequence of segments
PathOf(segments) ==
    IF segments = <<>> THEN <<>>
    ELSE <<"/">> \o Head(segments) \o PathOf(Tail(segments))

SegShadow == <<"s", "h", "a", "d", "o", "w">>

SegServer == <<"s", "e", "r", "v", "e", "r">>

\* the request a session call must have issued: the client's configuration
\* with the given method, the base URL followed by the path, and the body
HttpRequest(method, segments, body) ==
    [requestConfig EXCEPT !.url = Str(url \o PathOf(segments)),
                          !.method = Str(method),
                          !.data = body]

\* a portion of key material that is missing or empty
Missing(v) == v = Undef \/ v = Str(<<>>)

\* a portion of key material that is a non-empty string
Present(v) == v.t = "string" /\ v.s # <<>>

\* a call settled without the transport having answered: rejected locally
RejectedLocally(call) ==
    /\ call.st = "rejected"
    /\ call.resp = NoOutcome
    /\ call.sent = <<>>

----------------------------------------------------------------------------
(* C1 *)

\* the method and path segments C1 gives for a key generation or retrieval call
C1_Expected(call) ==
    LET id == remove0x(call.args[1])
        sig == remove0x(call.args[2])
    IN CASE call.op = "generateServerKey" ->
              HttpRequest(<<"p", "o", "s", "t">>,
                          <<SegShadow, id, sig, Decimal(call.args[3].n)>>, Undef)
         [] call.op = "retrieveServerKeyPublic" ->
              HttpRequest(<<"g", "e", "t">>, <<SegServer, id, sig>>, Undef)
         [] call.op = "generateServerAndDocumentKey" ->
              HttpRequest(<<"p", "o", "s", "t">>,
                          <<id, sig, Decimal(call.args[3].n)>>, Undef)
         [] call.op = "shadowRetrieveDocumentKey" ->
              HttpRequest(<<"g", "e", "t">>, <<SegShadow, id, sig>>, Undef)
         [] call.op = "retrieveDocumentKey" ->
              HttpRequest(<<"g", "e", "t">>, <<id, sig>>, Undef)

C1_Ops ==
    {"generateServerKey", "retrieveServerKeyPublic", "generateServerAndDocumentKey",
     "shadowRetrieveDocumentKey", "retrieveDocumentKey"}

\* C1: every call of generateServerKey, retrieveServerKeyPublic,
\* generateServerAndDocumentKey, shadowRetrieveDocumentKey or retrieveDocumentKey
\* has issued exactly the request of the table: POST base/shadow/{id}/{sig}/{threshold},
\* GET base/server/{id}/{sig}, POST base/{id}/{sig}/{threshold},
\* GET base/shadow/{id}/{sig}, GET base/{id}/{sig}, with {id} and {sig} the
\* identifiers without their 0x prefix and the threshold in decimal.
C1_KeySessionRequests ==
    \A c \in DOMAIN calls :
        calls[c].op \in C1_Ops => calls[c].sent = <<C1_Expected(calls[c])>>

\* generateServerKey("0xde", "0xbe", 2) has issued POST base/shadow/de/be/2
C1_Witness ==
    \E c \in DOMAIN calls :
        /\ calls[c].op = "generateServerKey"
        /\ calls[c].args = <<Str(<<"0", "x", "d", "e">>), Str(<<"0", "x", "b", "e">>), Num(2)>>
        /\ Len(calls[c].sent) = 1
        /\ calls[c].sent[1].method = Str(<<"p", "o", "s", "t">>)
        /\ calls[c].sent[1].url =
              Str(url \o <<"/", "s", "h", "a", "d", "o", "w", "/", "d", "e", "/", "b", "e", "/", "2">>)

----------------------------------------------------------------------------
(* C2 *)

\* C2: a positional storeDocumentKey call whose common point (third argument)
\* or encrypted point (fourth argument) is undefined or "" is rejected with a
\* local validation error and the transport was never invoked for it.
C2_IncompletePositionalRejected ==
    \A c \in DOMAIN calls :
        (/\ calls[c].op = "storeDocumentKey"
         /\ calls[c].args[3].t # "object"
         /\ (Missing(calls[c].args[3]) \/ Missing(calls[c].args[4])))
        => (/\ RejectedLocally(calls[c])
            /\ calls[c].out.kind = "throw"
            /\ calls[c].out.v.class = "Error")

\* storeDocumentKey(id, sig, "0xc1", undefined) was rejected without a request
C2_Witness ==
    \E c \in DOMAIN calls :
        /\ calls[c].op = "storeDocumentKey"
        /\ calls[c].args[3] = Str(<<"0", "x", "c", "1">>)
        /\ calls[c].args[4] = Undef
        /\ calls[c].st = "rejected"
        /\ calls[c].sent = <<>>

----------------------------------------------------------------------------
(* C3 *)

\* the common point and encrypted point a storeDocumentKey call supplies
StoreCommonPoint(call) ==
    IF call.args[3].t = "object" THEN Get(call.args[3], "common_point")
    ELSE call.args[3]

StoreEncryptedPoint(call) ==
    IF call.args[3].t = "object" THEN Get(call.args[3], "encrypted_point")
    ELSE call.args[4]

\* the decrypted secret, common point and shadows a shadowDecrypt call supplies
DecryptSecret(call) ==
    IF call.args[4].t = "object" THEN Get(call.args[4], "decrypted_secret")
    ELSE call.args[4]

DecryptCommonPoint(call) ==
    IF call.args[4].t = "object" THEN Get(call.args[4], "common_point")
    ELSE call.args[5]

DecryptShadows(call) ==
    IF call.args[4].t = "object" THEN Get(call.args[4], "decrypt_shadows")
    ELSE call.args[6]

\* the key material of a storeDocumentKey or shadowDecrypt call is complete
CompleteMaterial(call) ==
    IF call.op = "storeDocumentKey"
    THEN Present(StoreCommonPoint(call)) /\ Present(StoreEncryptedPoint(call))
    ELSE /\ Present(DecryptSecret(call))
         /\ Present(DecryptCommonPoint(call))
         /\ DecryptShadows(call).t = "array"
         /\ DecryptShadows(call).a # <<>>

\* C3: a storeDocumentKey or shadowDecrypt call, in the object form as in the
\* positional form, has issued a request only if its key material is complete
\* (no portion missing or empty).
C3_OnlyCompleteMaterialIsSent ==
    \A c \in DOMAIN calls :
        (calls[c].op \in {"storeDocumentKey", "shadowDecrypt"} /\ calls[c].sent # <<>>)
        => CompleteMaterial(calls[c])

----------------------------------------------------------------------------
(* C4 *)

\* C4: a storeDocumentKey call, given the key object {common_point: c,
\* encrypted_point: e, encrypted_key: k} or the positional fields (c, e), issues
\* the same request, a function of id, sig, c and e alone: POST
\* base/shadow/{id}/{sig}/{c}/{e} without their 0x prefixes and without a body;
\* with complete key material both forms do issue it, and encrypted_key is no
\* part of it.
C4_StoreRequestSameInBothForms ==
    \A c \in DOMAIN calls :
        calls[c].op = "storeDocumentKey"
        => LET expected ==
                   HttpRequest(<<"p", "o", "s", "t">>,
                               <<SegShadow, remove0x(calls[c].args[1]),
                                 remove0x(calls[c].args[2]),
                                 remove0x(StoreCommonPoint(calls[c])),
                                 remove0x(StoreEncryptedPoint(calls[c]))>>,
                               Undef)
           IN /\ calls[c].sent # <<>> => calls[c].sent = <<expected>>
              /\ CompleteMaterial(calls[c]) => calls[c].sent = <<expected>>

\* the object form with common point "0xc1" and encrypted point "c2" has issued
\* POST base/shadow/de/be/c1/c2
C4_Witness ==
    \E c \in DOMAIN calls :
        /\ calls[c].op = "storeDocumentKey"
        /\ calls[c].args[1] = Str(<<"0", "x", "d", "e">>)
        /\ calls[c].args[2] = Str(<<"0", "x", "b", "e">>)
        /\ calls[c].args[3] = Obj([common_point |-> Str(<<"0", "x", "c", "1">>),
                                   encrypted_key |-> Str(<<"0", "x", "e", "7">>),
                                   encrypted_point |-> Str(<<"c", "2">>)])
        /\ Len(calls[c].sent) = 1
        /\ calls[c].sent[1].url =
              Str(url \o <<"/", "s", "h", "a", "d", "o", "w", "/", "d", "e", "/", "b", "e", "/", "c", "1", "/", "c", "2">>)
        /\ calls[c].sent[1].data = Undef

----------------------------------------------------------------------------
(* C5 *)

\* s has a double quote as its first character and another as its last
Enclosed(s) == Len(s) >= 2 /\ s[1] = "\"" /\ s[Len(s)] = "\""

\* s with one pair of enclosing double quotes removed, s itself when it has none
OnePairRemoved(s) == IF Enclosed(s) THEN SubSeq(s, 2, Len(s) - 1) ELSE s

\* the request of the call was answered with a non-success HTTP response
C5_Failed(call) ==
    /\ call.client = "session"
    /\ call.resp.kind = "throw"
    /\ call.resp.v.isAxiosError
    /\ call.resp.v.response # Undef

\* completion o throws the SecretStoreSessionError C5 describes for the
\* response and the request req
C5_Rejection(o, response, req) ==
    /\ o.kind = "throw"
    /\ o.v.class = "SecretStoreSessionError"
    /\ response.data.t = "string"
          => o.v.message =
                response.statusText.s \o <<" ", "(">> \o Decimal(response.status.n)
                    \o <<")", ":", " ">> \o OnePairRemoved(response.data.s)
    /\ o.v.meta = req

\* C5: a session call whose request was answered with a non-success response of
\* status s, status text t and body b never resolves: its _send throws, and its
\* promise, once settled, is rejected with, a SecretStoreSessionError whose
\* message is t, " (", s in decimal, "): " and b with one pair of enclosing
\* double quotes removed, and whose meta is the configuration of the failed
\* request.
C5_HttpFailureRejection ==
    \A c \in DOMAIN calls :
        C5_Failed(calls[c])
        => LET response == calls[c].resp.v.response
           IN /\ calls[c].st # "resolved"
              /\ calls[c].send # NoOutcome
                    => C5_Rejection(calls[c].send, response, calls[c].sent[1])
              /\ HasSettled(calls[c])
                    => C5_Rejection(calls[c].out, response, calls[c].sent[1])

----------------------------------------------------------------------------
(* C6 *)

\* C6: a session call whose transport failed without an HTTP response never
\* resolves: its _send throws, and its promise, once settled, is rejected with,
\* the very error the transport raised.
C6_TransportErrorPropagates ==
    \A c \in DOMAIN calls :
        (/\ calls[c].client = "session"
         /\ calls[c].resp.kind = "throw"
         /\ calls[c].resp.v.response = Undef)
        => (/\ calls[c].st # "resolved"
            /\ calls[c].send # NoOutcome => calls[c].send = calls[c].resp
            /\ HasSettled(calls[c]) => calls[c].out = calls[c].resp)

----------------------------------------------------------------------------
(* C7 *)

\* the operations C7 names as returning the unquoted body
C7_Unquoted ==
    {"generateServerKey", "retrieveServerKeyPublic", "generateServerAndDocumentKey",
     "retrieveDocumentKey", "signSchnorr", "signEcdsa", "nodesSetChange"}

\* C7: a session call answered with a success response of body b is never
\* rejected, its _send returns b, and its promise, once settled, is resolved:
\* for generateServerKey, retrieveServerKeyPublic,
\* generateServerAndDocumentKey, retrieveDocumentKey, signSchnorr, signEcdsa
\* and nodesSetChange with b stripped of one pair of enclosing double quotes (b
\* unchanged when it is not fully quoted), for storeDocumentKey with b
\* unchanged, for shadowRetrieveDocumentKey with the decoded object b
\* unchanged; and a session call resolves on a success response only.
C7_SuccessValue ==
    \A c \in DOMAIN calls :
        LET call == calls[c]
            b == call.resp.v.data
        IN /\ (call.client = "session" /\ call.st = "resolved")
              => call.resp.kind = "return"
           /\ (call.client = "session" /\ call.resp.kind = "return")
              => /\ call.st # "rejected"
                 /\ call.send # NoOutcome => call.send = Return(b)
                 /\ HasSettled(call)
                       => call.out =
                             Return(IF call.op \in C7_Unquoted /\ b.t = "string"
                                    THEN Str(OnePairRemoved(b.s))
                                    ELSE b)

----------------------------------------------------------------------------
(* C8 *)

\* the counts of requests and settlements of every call
C8_Counts ==
    \A c \in DOMAIN calls :
        LET call == calls[c]
        IN /\ Len(call.sent) <= 1
           /\ call.settles <= 1
           /\ call.st = "pending" => (Len(call.sent) = 1 /\ call.settles = 0)
           /\ HasSettled(call) => call.settles = 1
           /\ (HasSettled(call) /\ call.resp = NoOutcome) => call.sent = <<>>
           /\ (HasSettled(call) /\ call.resp # NoOutcome) => Len(call.sent) = 1
           /\ (call.st = "rejected" /\ call.resp # NoOutcome)
                 => call.out.kind = "throw"

\* a settled call is never touched again
C8_SettledIsFinal ==
    \A c \in DOMAIN calls : HasSettled(calls[c]) => calls'[c] = calls[c]

\* C8: every call, of a session operation or an RPC operation, has issued at
\* most one request, exactly one unless it was rejected before the transport
\* was reached, and its promise settles at most once; after a failed request
\* the call issues no further request and the failure is delivered once: a
\* settled call never changes.
C8_OneRequestOneSettlement == [](C8_Counts) /\ [][C8_SettledIsFinal]_vars

\* a call whose single request failed is rejected, settled once
C8_Witness ==
    \E c \in DOMAIN calls :
        /\ calls[c].st = "rejected"
        /\ calls[c].resp.kind = "throw"
        /\ Len(calls[c].sent) = 1
        /\ calls[c].settles = 1

----------------------------------------------------------------------------
(* C9 *)

\* a hex string argument with its 0x prefix ensured
Hex(v) == Str(ensure0x(v.s))

\* the method and parameters C9 gives for a call of the RPC client
C9_Expected(call) ==
    LET a == call.args
    IN CASE call.op = "signRawHash" ->
              [method |-> "secretstore_signRawHash",
               params |-> <<a[1], a[2], Hex(a[3])>>]
         [] call.op = "generateDocumentKey" ->
              [method |-> "secretstore_generateDocumentKey",
               params |-> <<a[1], a[2], Hex(a[3])>>]
         [] call.op = "encrypt" ->
              [method |-> "secretstore_encrypt",
               params |-> <<a[1], a[2], Hex(a[4]), Hex(a[3])>>]
         [] call.op = "decrypt" ->
              [method |-> "secretstore_decrypt",
               params |-> <<a[1], a[2], Hex(a[4]), Hex(a[3])>>]
         [] call.op = "serversSetHash" ->
              [method |-> "secretstore_serversSetHash",
               params |-> <<a[1]>>]

C9_Ops == {"signRawHash", "generateDocumentKey", "encrypt", "decrypt", "serversSetHash"}

\* the hex arguments of the call are strings
C9_HexArgumentsGiven(call) ==
    CASE call.op \in {"signRawHash", "generateDocumentKey"} -> IsString(call.args[3])
      [] call.op \in {"encrypt", "decrypt"} -> IsString(call.args[3]) /\ IsString(call.args[4])
      [] OTHER -> TRUE

\* C9: a call of signRawHash, generateDocumentKey, encrypt, decrypt or
\* serversSetHash sends to the client's provider the fixed method name and the
\* parameters in the fixed order: [account, pwd, 0x-hash], [account, pwd,
\* 0x-serverKey], [account, pwd, 0x-key, 0x-document] for encrypt and decrypt
\* (the key before the document), [nodeIDs] with the list as given.
C9_RpcMethodAndParams ==
    \A c \in DOMAIN calls :
        calls[c].op \in C9_Ops
        => LET expected == C9_Expected(calls[c])
           IN /\ calls[c].sent # <<>>
                    => calls[c].sent = <<[provider |-> provider,
                                          method |-> expected.method,
                                          params |-> expected.params]>>
              /\ C9_HexArgumentsGiven(calls[c]) => calls[c].sent # <<>>

\* encrypt(account, pwd, "d1", "0xe0") has sent secretstore_encrypt with the
\* key 0xe0 before the document 0xd1
C9_Witness ==
    \E c \in DOMAIN calls :
        /\ calls[c].op = "encrypt"
        /\ calls[c].args[3] = Str(<<"d", "1">>)
        /\ calls[c].args[4] = Str(<<"0", "x", "e", "0">>)
        /\ Len(calls[c].sent) = 1
        /\ calls[c].sent[1].method = "secretstore_encrypt"
        /\ calls[c].sent[1].params[3] = Str(<<"0", "x", "e", "0">>)
        /\ calls[c].sent[1].params[4] = Str(<<"0", "x", "d", "1">>)

----------------------------------------------------------------------------
(* C10 *)

\* C10: a shadowDecrypt call of the RPC client, given the portions object
\* {decrypted_secret, common_point, decrypt_shadows} or the three fields as
\* positional arguments, sends the same request, a function of account, pwd,
\* document and the three fields alone: secretstore_shadowDecrypt with
\* [account, pwd, 0x-secret, 0x-commonPoint, shadows, 0x-document], the shadows
\* element for element as given; with complete portions both forms do send it.
C10_ShadowDecryptSameInBothForms ==
    \A c \in DOMAIN calls :
        calls[c].op = "shadowDecrypt"
        => LET call == calls[c]
               expected ==
                   [provider |-> provider,
                    method |-> "secretstore_shadowDecrypt",
                    params |-> <<call.args[1], call.args[2],
                                 Hex(DecryptSecret(call)), Hex(DecryptCommonPoint(call)),
                                 DecryptShadows(call), Hex(call.args[3])>>]
           IN /\ call.sent # <<>> => call.sent = <<expected>>
              /\ CompleteMaterial(call) => call.sent = <<expected>>

\* the object form with secret "c2", common point "0xc1" and the shadows
\* [0xn1, n2] has sent them as 0xc2, 0xc1 and [0xn1, n2]
C10_Witness ==
    \E c \in DOMAIN calls :
        /\ calls[c].op = "shadowDecrypt"
        /\ calls[c].args[4] =
              Obj([decrypted_secret |-> Str(<<"c", "2">>),
                   common_point |-> Str(<<"0", "x", "c", "1">>),
                   decrypt_shadows |-> Arr(<<Str(<<"0", "x", "n", "1">>), Str(<<"n", "2">>)>>)])
        /\ Len(calls[c].sent) = 1
        /\ calls[c].sent[1].method = "secretstore_shadowDecrypt"
        /\ calls[c].sent[1].params[3] = Str(<<"0", "x", "c", "2">>)
        /\ calls[c].sent[1].params[4] = Str(<<"0", "x", "c", "1">>)
        /\ calls[c].sent[1].params[5] =
              Arr(<<Str(<<"0", "x", "n", "1">>), Str(<<"n", "2">>)>>)

----------------------------------------------------------------------------
(* C11 *)

\* the key material of a shadowDecrypt call is absent, or its positional form
\* lacks the common point or has no shadows
C11_Rejectable(call) ==
    \/ call.args[4] = Undef
    \/ /\ call.args[4].t = "string"
       /\ \/ Missing(call.args[5])
          \/ call.args[6] = Undef
          \/ call.args[6] = Arr(<<>>)

\* C11: a shadowDecrypt call of the RPC client whose fourth argument (secret
\* or portions) is undefined, or whose positional form has a missing common
\* point or a missing or empty list of shadows, is rejected with an Error
\* before anything is sent to the provider.
C11_ShadowDecryptRejectsLocally ==
    \A c \in DOMAIN calls :
        (calls[c].op = "shadowDecrypt" /\ C11_Rejectable(calls[c]))
        => (/\ RejectedLocally(calls[c])
            /\ calls[c].out.kind = "throw"
            /\ calls[c].out.v.class = "Error")

\* shadowDecrypt(account, pwd, doc, "0xc1", "c2", []) was rejected without a
\* request
C11_Witness ==
    \E c \in DOMAIN calls :
        /\ calls[c].op = "shadowDecrypt"
        /\ calls[c].args[4] = Str(<<"0", "x", "c", "1">>)
        /\ calls[c].args[5] = Str(<<"c", "2">>)
        /\ calls[c].args[6] = Arr(<<>>)
        /\ calls[c].st = "rejected"
        /\ calls[c].sent = <<>>

----------------------------------------------------------------------------
(* C12 *)

\* the error field a decoded response carries, undefined when it has none
ErrorField(v) ==
    IF v.t = "object" /\ "error" \in DOMAIN v.f THEN v.f.error ELSE Undef

\* provider.send has settled the request of the call
RpcAnswered(call) == call.client = "rpc" /\ call.resp # NoOutcome

\* C12: an RPC call whose transport failed with t settles rejected with t
\* itself; one whose decoded response carries a non-empty error field e
\* settles rejected with an Error of message e; every other answered call
\* settles resolved with the response's result.
C12_RpcCompletion ==
    \A c \in DOMAIN calls :
        (RpcAnswered(calls[c]) /\ HasSettled(calls[c]))
        => LET call == calls[c]
           IN IF call.resp.kind = "throw"
              THEN call.st = "rejected" /\ call.out = call.resp
              ELSE IF ~Missing(ErrorField(call.resp.v))
              THEN /\ call.st = "rejected"
                   /\ call.out.kind = "throw"
                   /\ call.out.v.class = "Error"
                   /\ call.out.v.message = ErrorField(call.resp.v).s
              ELSE /\ call.st = "resolved"
                   /\ call.out = call.resp

----------------------------------------------------------------------------
(* C13 *)

SegSchnorr == <<"s", "c", "h", "n", "o", "r", "r">>

SegEcdsa == <<"e", "c", "d", "s", "a">>

\* C13: every signSchnorr call has issued GET base/schnorr/{id}/{sig}/{hash}
\* and every signEcdsa call GET base/ecdsa/{id}/{sig}/{hash}, with {id} and
\* {sig} without their 0x prefix and {hash} the messageHash argument as given,
\* its 0x prefix kept.
C13_SigningRequests ==
    \A c \in DOMAIN calls :
        (calls[c].client = "session" /\ calls[c].op \in {"signSchnorr", "signEcdsa"})
        => calls[c].sent =
              <<HttpRequest(<<"g", "e", "t">>,
                            <<IF calls[c].op = "signSchnorr" THEN SegSchnorr ELSE SegEcdsa,
                              remove0x(calls[c].args[1]),
                              remove0x(calls[c].args[2]),
                              calls[c].args[3].s>>,
                            Undef)>>

\* signSchnorr("0xde", "0xbe", "0xaa") has issued GET base/schnorr/de/be/0xaa
C13_Witness ==
    \E c \in DOMAIN calls :
        /\ calls[c].client = "session"
        /\ calls[c].op = "signSchnorr"
        /\ calls[c].args = <<Str(<<"0", "x", "d", "e">>), Str(<<"0", "x", "b", "e">>), Str(<<"0", "x", "a", "a">>)>>
        /\ Len(calls[c].sent) = 1
        /\ calls[c].sent[1].method = Str(<<"g", "e", "t">>)
        /\ calls[c].sent[1].url =
              Str(url \o <<"/", "s", "c", "h", "n", "o", "r", "r", "/", "d", "e", "/", "b", "e", "/", "0", "x", "a", "a">>)

----------------------------------------------------------------------------
(* C14 *)

SegAdmin == <<"a", "d", "m", "i", "n">>

SegServersSetChange ==
    <<"s", "e", "r", "v", "e", "r", "s", "_", "s", "e", "t", "_", "c", "h", "a", "n", "g", "e">>

RECURSIVE CommaSeparated(_)
\* the texts of a sequence with "," between them
CommaSeparated(texts) ==
    IF texts = <<>> THEN <<>>
    ELSE IF Len(texts) = 1 THEN texts[1]
    ELSE texts[1] \o <<",">> \o CommaSeparated(Tail(texts))

\* the JSON encoding of an array of node ids: each in double quotes, as given
\* and in the given order, between brackets
JsonOfNodeIDs(set) ==
    <<"[">> \o CommaSeparated([i \in 1..Len(set.a) |-> <<"\"">> \o set.a[i].s \o <<"\"">>])
            \o <<"]">>

\* C14: every nodesSetChange(newSet, sigOld, sigNew) call, of the typed client
\* as of the legacy Session, has issued one POST to
\* base/admin/servers_set_change/{sigOld}/{sigNew}, the signatures without
\* their 0x prefix and the old one first, with the JSON array of newSet as its
\* body: the node ids in the given order, with any 0x prefix kept.
C14_NodesSetChangeRequest ==
    \A c \in DOMAIN calls :
        LET call == calls[c]
            segments == <<SegAdmin, SegServersSetChange,
                          remove0x(call.args[2]), remove0x(call.args[3])>>
            body == Str(JsonOfNodeIDs(call.args[1]))
        IN /\ (call.client = "session" /\ call.op = "nodesSetChange")
              => call.sent = <<HttpRequest(<<"p", "o", "s", "t">>, segments, body)>>
           /\ (call.client = "legacy" /\ call.op = "Session.nodesSetChange")
              => call.sent = <<[url |-> Str(uri \o PathOf(segments)),
                                method |-> Str(<<"P", "O", "S", "T">>),
                                body |-> body]>>

\* nodesSetChange(["0xn1", "n2"], "0xbe", "ef") has issued POST
\* base/admin/servers_set_change/be/ef with the body ["0xn1","n2"]
C14_Witness ==
    \E c \in DOMAIN calls :
        /\ calls[c].client = "session"
        /\ calls[c].op = "nodesSetChange"
        /\ calls[c].args = <<Arr(<<Str(<<"0", "x", "n", "1">>), Str(<<"n", "2">>)>>),
                             Str(<<"0", "x", "b", "e">>), Str(<<"e", "f">>)>>
        /\ Len(calls[c].sent) = 1
        /\ calls[c].sent[1].method = Str(<<"p", "o", "s", "t">>)
        /\ calls[c].sent[1].url =
              Str(url \o <<"/", "a", "d", "m", "i", "n", "/", "s", "e", "r", "v", "e", "r", "s", "_", "s", "e", "t", "_", "c", "h", "a", "n", "g", "e", "/", "b", "e", "/", "e", "f">>)
        /\ calls[c].sent[1].data =
              Str(<<"[", "\"", "0", "x", "n", "1", "\"", ",", "\"", "n", "2", "\"", "]">>)

----------------------------------------------------------------------------
(* C15 *)

\* C15: when the session client's constructor was given an undefined or empty
\* endpoint URL, it threw an Error, no instance exists and no call of a session
\* operation, hence no request of one, is ever made.
C15_NoSessionClientWithoutUrl ==
    Missing(constructed.session.args[1])
    => (/\ constructed.session.out.kind = "throw"
        /\ constructed.session.out.v.class = "Error"
        /\ ~Instance("session")
        /\ \A c \in DOMAIN calls : calls[c].client # "session")

\* the session client's constructor threw for "" while the RPC client is in use
C15_Witness ==
    /\ constructed.session.args[1] = Str(<<>>)
    /\ constructed.session.out.kind = "throw"
    /\ \E c \in DOMAIN calls : calls[c].client = "rpc" /\ calls[c].sent # <<>>

----------------------------------------------------------------------------
(* C16 *)

\* stored is the argument without its one trailing "/", or the argument itself
\* when it does not end in "/"
OneSlashStripped(argument, stored) ==
    IF argument[Len(argument)] = "/"
    THEN argument = stored \o <<"/">>
    ELSE argument = stored

\* C16: the url of a typed session client, like the uri of a legacy Session, is
\* the constructor's argument with exactly one trailing "/" removed when the
\* argument ends in "/", and the argument itself otherwise.
C16_BaseUrlStored ==
    /\ Instance("session") => OneSlashStripped(constructed.session.args[1].s, url)
    /\ Instance("legacy") => OneSlashStripped(constructed.legacy.args[1].s, uri)

\* "h/" is stored as "h" by the typed client, whose request goes to h/de/be,
\* and "h//" as "h/" by the legacy one
C16_Witness ==
    /\ constructed.session.args[1] = Str(<<"h", "/">>)
    /\ url = <<"h">>
    /\ constructed.legacy.args[1] = Str(<<"h", "/", "/">>)
    /\ uri = <<"h", "/">>
    /\ \E c \in DOMAIN calls :
          /\ calls[c].op = "retrieveDocumentKey"
          /\ Len(calls[c].sent) = 1
          /\ calls[c].sent[1].url = Str(<<"h", "/", "d", "e", "/", "b", "e">>)

----------------------------------------------------------------------------
(* C17 *)

\* C17: the RPC client constructed with a non-empty URL string holds a newly
\* created provider for that URL; constructed with a provider handle it holds
\* that very handle; constructed with undefined or "" its constructor threw an
\* Error, no instance exists and no RPC operation is ever called.
C17_RpcConstruction ==
    LET a == constructed.rpc.args[1]
    IN IF a.t = "string" /\ a.s # <<>>
       THEN /\ Instance("rpc")
            /\ provider = [t |-> "provider", url |-> a.s, created |-> TRUE]
       ELSE IF a.t = "provider"
       THEN Instance("rpc") /\ provider = a
       ELSE /\ constructed.rpc.out.kind = "throw"
            /\ constructed.rpc.out.v.class = "Error"
            /\ \A c \in DOMAIN calls : calls[c].client # "rpc"

\* a client constructed with a provider handle has sent a request to it
C17_Witness ==
    /\ constructed.rpc.args[1] = [t |-> "provider", url |-> <<"p">>, created |-> FALSE]
    /\ provider = constructed.rpc.args[1]
    /\ \E c \in DOMAIN calls :
          /\ calls[c].client = "rpc"
          /\ Len(calls[c].sent) = 1
          /\ calls[c].sent[1].provider = constructed.rpc.args[1]

----------------------------------------------------------------------------
(* C18 *)

\* the operations that issue a POST; the others issue a GET
PostOps ==
    {"generateServerKey", "storeDocumentKey", "generateServerAndDocumentKey",
     "nodesSetChange"}

\* C18: every request of the session client has the fields of the default
\* configuration given at construction; its url is a URL under the base URL,
\* its method the operation's and its data the operation's body (undefined for
\* every operation but nodesSetChange), whatever the defaults of url, method
\* and data are; every other field has the default's value.
C18_DefaultsMerged ==
    \A c \in DOMAIN calls :
        (calls[c].client = "session" /\ calls[c].sent # <<>>)
        => LET req == calls[c].sent[1]
               defaults == constructed.session.args[2]
           IN /\ DOMAIN req = DOMAIN defaults
              /\ \A f \in DOMAIN defaults \ {"url", "method", "data"} :
                    req[f] = defaults[f]
              /\ req.url.t = "string"
              /\ StartsWith(req.url.s, url \o <<"/">>)
              /\ req.method = IF calls[c].op \in PostOps
                              THEN Str(<<"p", "o", "s", "t">>)
                              ELSE Str(<<"g", "e", "t">>)
              /\ req.data = IF calls[c].op = "nodesSetChange"
                            THEN Str(JsonOfNodeIDs(calls[c].args[1]))
                            ELSE Undef

\* a client constructed with defaults url "u", method "put", data "d" and
\* timeout 5 has issued a GET without data under its base URL, with timeout 5
C18_Witness ==
    /\ constructed.session.args[2].url = Str(<<"u">>)
    /\ constructed.session.args[2].data = Str(<<"d">>)
    /\ \E c \in DOMAIN calls :
          /\ calls[c].op = "retrieveDocumentKey"
          /\ Len(calls[c].sent) = 1
          /\ calls[c].sent[1].url = Str(url \o <<"/", "d", "e", "/", "b", "e">>)
          /\ calls[c].sent[1].method = Str(<<"g", "e", "t">>)
          /\ calls[c].sent[1].data = Undef
          /\ calls[c].sent[1].timeout = Num(5)

----------------------------------------------------------------------------
(* C19 *)

\* the fields of the typed clients hold what their constructors set
C19_FieldsAsConstructed ==
    /\ url = constructed.session.out.v.url
    /\ requestConfig = constructed.session.out.v.requestConfig
    /\ provider = constructed.rpc.out.v.provider

\* C19: in every reachable state, whatever operations were called, in flight,
\* resolved, rejected by the transport or rejected locally, the session
\* client's url and requestConfig and the RPC client's provider are the values
\* their constructors set, and no step writes them.
C19_ClientFieldsImmutable ==
    [](C19_FieldsAsConstructed) /\ [][UNCHANGED <<url, requestConfig, provider>>]_vars

\* one call was rejected locally and another resolved, and the fields are as
\* constructed
C19_Witness ==
    /\ C19_FieldsAsConstructed
    /\ \E c, d \in DOMAIN calls :
          /\ RejectedLocally(calls[c])
          /\ calls[d].st = "resolved"
          /\ calls[d].client = "session"

----------------------------------------------------------------------------
(* C20 *)

\* the request configuration the answer to a session call was given for
AnsweredConfig(call) ==
    IF call.resp.kind = "return" THEN call.resp.v.config
    ELSE call.resp.v.response.config

\* C20: with several calls on the same clients in flight and answered in any
\* order, calls of the same operation with the same arguments have issued the
\* same request whatever else was going on, and every answered call is
\* answered for, and settles from the answer to, its own request: a session
\* call resolves with
\* the (unquoted) body of, or rejects with the error built from, the response
\* to its request, an RPC call resolves with the result of, or rejects with
\* the error of, its request.
C20_CallsIndependent ==
    \A c \in DOMAIN calls :
        LET call == calls[c]
        IN /\ \A d \in DOMAIN calls :
                 (/\ calls[d].client = call.client
                  /\ calls[d].op = call.op
                  /\ calls[d].args = call.args)
                 => calls[d].sent = call.sent
           /\ (call.client = "session" /\ call.resp # NoOutcome)
              => /\ AnsweredConfig(call) = call.sent[1]
                 /\ call.st = "resolved"
                       => call.out.v = IF call.op \in C7_Unquoted
                                       THEN Str(removeEnclosingDQuotes(call.resp.v.data.s))
                                       ELSE call.resp.v.data
                 /\ call.st = "rejected" => call.out.v.meta = call.sent[1]
           /\ (call.client = "rpc" /\ call.resp # NoOutcome)
              => /\ call.send # NoOutcome => call.send = call.resp
                 /\ HasSettled(call) => call.out = call.resp
                 /\ call.resp.kind = "return"
                       => call.resp.v = call.sent[1].params[Len(call.sent[1].params)]

\* a signSchnorr call was rejected with the failure of its request while a
\* signRawHash call resolved with the result of its own
C20_Witness ==
    \E c, d \in DOMAIN calls :
        /\ calls[c].op = "signSchnorr"
        /\ calls[c].st = "rejected"
        /\ calls[c].out.v.meta = calls[c].sent[1]
        /\ calls[d].op = "signRawHash"
        /\ calls[d].st = "resolved"
        /\ calls[d].out.v = Str(<<"0", "x", "a", "a">>)


----------------------------------------------------------------------------
(* C21 *)

\* a call of a typed client that handed a request to its transport
C21_Sent(call) == call.client \in {"session", "rpc"} /\ call.sent # <<>>

\* the transport has answered the request of the call
C21_Answered(call) == call.resp # NoOutcome

\* a call that handed a request to its transport is pending for as long as the
\* transport has not answered, and its promise settles only once its _send has
\* completed on the answer
C21_SettledOnlyWhenAnswered ==
    \A c \in DOMAIN calls :
        C21_Sent(calls[c])
        => /\ ~C21_Answered(calls[c]) => calls[c].st = "pending"
           /\ calls[c].send # NoOutcome => C21_Answered(calls[c])
           /\ HasSettled(calls[c]) => calls[c].send # NoOutcome

\* an unanswered call changes by nothing but the answer of its transport, which
\* leaves it pending; a pending call settles only in a step of its own, after
\* the answer, with the answer unchanged
C21_PendingUntilAnswered ==
    \A c \in DOMAIN calls :
        (C21_Sent(calls[c]) /\ calls[c].st = "pending" /\ calls'[c] # calls[c])
        => IF ~C21_Answered(calls[c])
           THEN /\ C21_Answered(calls'[c])
                /\ calls'[c] = [calls[c] EXCEPT !.resp = calls'[c].resp]
           ELSE /\ calls'[c].resp = calls[c].resp
                /\ calls'[c].sent = calls[c].sent
                /\ HasSettled(calls'[c]) => calls[c].send # NoOutcome

\* every call that handed a request to its transport settles in the end: time
\* and again, no such call is pending
C21_AnsweredCallsSettle ==
    []<>(\A c \in DOMAIN calls : C21_Sent(calls[c]) => HasSettled(calls[c]))

\* C21: a call of the session or RPC client that passed local validation
\* settles only after its transport request has settled: while the transport
\* has not answered, the call is pending and changes by nothing but that
\* answer (no timeout or cancellation of the client settles it); its promise
\* settles in a later step, once its _send has completed on the answer; and
\* with transports that answer and continuations that run, it eventually
\* resolves or rejects.
C21_SettlesWithTransport ==
    /\ [](C21_SettledOnlyWhenAnswered)
    /\ [][C21_PendingUntilAnswered]_vars
    /\ C21_AnsweredCallsSettle

\* one call is answered and still pending, its _send completed, while a call
\* made on the same clients has been answered and has settled
C21_Witness ==
    \E c, d \in DOMAIN calls :
        /\ C21_Sent(calls[c])
        /\ calls[c].st = "pending"
        /\ C21_Answered(calls[c])
        /\ calls[c].send # NoOutcome
        /\ C21_Sent(calls[d])
        /\ C21_Answered(calls[d])
        /\ HasSettled(calls[d])


----------------------------------------------------------------------------
(* C22 *)

\* the call of utility fn in slot c returned a string for a string
Returned(c, fn) ==
    /\ calls[c].client = "utils"
    /\ calls[c].op = fn
    /\ calls[c].args[1].t = "string"
    /\ calls[c].st = "returned"

\* C22: for every string x, remove0x applied to what ensure0x(x) returned is
\* remove0x(x).
C22_RemoveAfterEnsure ==
    \A c \in DOMAIN calls :
        (calls[c].client = "utils" /\ calls[c].op = "ensure0x" /\ calls[c].args[1].t = "string")
        => /\ calls[c].st = "returned"
           /\ remove0xCall(calls[c].out.v) = remove0xCall(calls[c].args[1])

\* ensure0x("0xa") returned "0xa", and remove0x of it is "a" as remove0x("0xa")
C22_Witness ==
    \E c \in DOMAIN calls :
        /\ Returned(c, "ensure0x")
        /\ calls[c].args[1] = Str(<<"0", "x", "a">>)
        /\ calls[c].out.v = Str(<<"0", "x", "a">>)
        /\ remove0xCall(calls[c].out.v) = Return(Str(<<"a">>))

----------------------------------------------------------------------------
(* C23 *)

\* C23: for every string x, what ensure0x(x) returned starts with "0x" and
\* ensure0x leaves it as it is; likewise add0x of lib/utils.js.
C23_EnsureIdempotent ==
    \A c \in DOMAIN calls :
        LET call == calls[c]
        IN /\ (call.client = "utils" /\ call.op = "ensure0x" /\ call.args[1].t = "string")
              => /\ call.st = "returned"
                 /\ StartsWith(call.out.v.s, <<"0", "x">>)
                 /\ ensure0xCall(call.out.v) = call.out
           /\ (call.client = "utils" /\ call.op = "utils.add0x" /\ call.args[1].t = "string")
              => /\ call.st = "returned"
                 /\ StartsWith(call.out.v.s, <<"0", "x">>)
                 /\ utils_add0xCall(call.out.v) = call.out

\* ensure0x("a0x") returned "0xa0x": the prefix was added in front of a string
\* that holds "0x" further on
C23_Witness ==
    \E c \in DOMAIN calls :
        /\ Returned(c, "ensure0x")
        /\ calls[c].args[1] = Str(<<"a", "0", "x">>)
        /\ calls[c].out.v = Str(<<"0", "x", "a", "0", "x">>)


----------------------------------------------------------------------------
(* C24 *)

\* C24: removeEnclosingDQuotes(s) returns the characters between the first and
\* the last character of s when s begins with a double quote and ends with
\* another, whatever lies between them, and s itself in every other case.
C24_EnclosingQuotesRemoved ==
    \A c \in DOMAIN calls :
        (/\ calls[c].client = "utils"
         /\ calls[c].op = "removeEnclosingDQuotes"
         /\ calls[c].args[1].t = "string")
        => LET s == calls[c].args[1].s
           IN /\ calls[c].st = "returned"
              /\ calls[c].out.v =
                    Str(IF Enclosed(s) THEN SubSeq(s, 2, Len(s) - 1) ELSE s)


----------------------------------------------------------------------------
(* C25 *)

RECURSIVE SplitAtSlashes(_)
\* the texts between the "/" of a text
SplitAtSlashes(text) ==
    IF \A i \in 1..Len(text) : text[i] # "/" THEN <<text>>
    ELSE LET i == CHOOSE j \in 1..Len(text) :
                      text[j] = "/" /\ \A k \in 1..(j - 1) : text[k] # "/"
         IN <<SubSeq(text, 1, i - 1)>> \o SplitAtSlashes(SubSeq(text, i + 1, Len(text)))

\* the path segments of the URL of a request, after the client's base URL
SegmentsOf(req) ==
    Tail(SplitAtSlashes(SubSeq(req.url.s, Len(url) + 1, Len(req.url.s))))

\* the positions of the segments an operation derives from serverKeyID,
\* signedServerKeyID, commonPoint, encryptedPoint, signatureOldSet and
\* signatureNewSet
C25_Derived(op) ==
    CASE op \in {"generateServerKey", "retrieveServerKeyPublic",
                 "shadowRetrieveDocumentKey", "signSchnorr", "signEcdsa"} -> {2, 3}
      [] op \in {"generateServerAndDocumentKey", "retrieveDocumentKey"} -> {1, 2}
      [] op = "storeDocumentKey" -> {2, 3, 4, 5}
      [] op = "nodesSetChange" -> {3, 4}

\* C25: in the URL of every request of the session client, no path segment
\* derived from serverKeyID, signedServerKeyID, commonPoint, encryptedPoint,
\* signatureOldSet or signatureNewSet starts with "0x", whatever the argument
\* was, one that starts with "0x0x" included.
C25_NoPrefixInSegments ==
    \A c \in DOMAIN calls :
        (calls[c].client = "session" /\ calls[c].sent # <<>>)
        => \A i \in C25_Derived(calls[c].op) :
              ~StartsWith(SegmentsOf(calls[c].sent[1])[i], <<"0", "x">>)


----------------------------------------------------------------------------
(* C26 *)

\* C26: every call of remove0x, ensure0x or add0x, of lib/utils.ts as of
\* lib/utils.js, on a string or on an absent value returns a string and throws
\* nothing, and remove0x returns "" for "" and for an absent value.
C26_TransformsTotal ==
    \A c \in DOMAIN calls :
        LET call == calls[c]
        IN /\ (/\ call.client = "utils"
               /\ call.op \in {"remove0x", "utils.remove0x", "ensure0x", "utils.add0x"})
              => (call.st = "returned" /\ call.out.v.t = "string")
           /\ (/\ call.client = "utils"
               /\ call.op \in {"remove0x", "utils.remove0x"}
               /\ call.args[1] \in {Str(<<>>), Undef, Null})
              => call.out = Return(Str(<<>>))


----------------------------------------------------------------------------
(* C27 *)

TextNoParameters ==
    <<"N", "o", " ", "d", "o", "c", "u", "m", "e", "n", "t", " ", "k", "e", "y", " ", "p", "a", "r", "a", "m", "e", "t", "e", "r", "s", " ", "w", "e", "r", "e", " ", "g", "i", "v", "e", "n">>

TextNotEnough ==
    <<"N", "o", "t", " ", "e", "n", "o", "u", "g", "h", " ", "d", "o", "c", "u", "m", "e", "n", "t", " ", "k", "e", "y", " ", "p", "o", "r", "t", "i", "o", "n", "s", " ", "w", "e", "r", "e", " ", "s", "u", "p", "p", "l", "i", "e", "d">>

TextNoEncryptedPoint ==
    <<"C", "o", "m", "m", "o", "n", " ", "p", "o", "i", "n", "t", " ", "w", "a", "s", " ", "g", "i", "v", "e", "n", " ", "b", "u", "t", " ", "n", "o", " ", "e", "n", "c", "r", "y", "p", "t", "e", "d", " ", "p", "o", "i", "n", "t">>

TextNotSupplied ==
    <<"D", "o", "c", "u", "m", "e", "n", "t", " ", "k", "e", "y", " ", "p", "o", "r", "t", "i", "o", "n", "s", " ", "w", "e", "r", "e", " ", "n", "o", "t", " ", "s", "u", "p", "p", "l", "i", "e", "d">>

\* the call was rejected before the transport was reached, with an Error
\* whose message satisfies the test
RejectedWith(call, message) ==
    /\ RejectedLocally(call)
    /\ call.out.kind = "throw"
    /\ call.out.v.class = "Error"
    /\ call.out.v.message = message

RejectedWithPrefix(call, prefix) ==
    /\ RejectedLocally(call)
    /\ call.out.kind = "throw"
    /\ call.out.v.class = "Error"
    /\ StartsWith(call.out.v.message, prefix)

\* a storeDocumentKey or shadowDecrypt call that supplies no key material
NoMaterial(call) ==
    \/ call.op = "storeDocumentKey" /\ Missing(call.args[3])
    \/ call.op = "shadowDecrypt" /\ Missing(call.args[4])

\* a positional storeDocumentKey or shadowDecrypt call with its first portion
\* given and another one missing
IncompletePositional(call) ==
    \/ /\ call.op = "storeDocumentKey"
       /\ Present(call.args[3])
       /\ Missing(call.args[4])
    \/ /\ call.op = "shadowDecrypt"
       /\ Present(call.args[4])
       /\ (Missing(call.args[5]) \/ call.args[6] \in {Undef, Arr(<<>>)})

\* C27 as stated: a storeDocumentKey call of the session client, like a
\* shadowDecrypt call of the RPC client, that supplies no key material is
\* rejected with the message "No document key parameters were given", and one
\* that supplies an incomplete positional set with a message beginning "Not
\* enough document key portions were supplied".
C27_SpecifiedMessages ==
    \A c \in DOMAIN calls :
        /\ NoMaterial(calls[c]) => RejectedWith(calls[c], TextNoParameters)
        /\ IncompletePositional(calls[c]) => RejectedWithPrefix(calls[c], TextNotEnough)

\* C27, amended: each operation has its own two messages.  A storeDocumentKey
\* call without key material is rejected with "No document key parameters were
\* given" and an incomplete positional one with a message beginning "Common
\* point was given but no encrypted point"; a shadowDecrypt call without key
\* material is rejected with "Document key portions were not supplied" and an
\* incomplete positional one with a message beginning "Not enough document key
\* portions were supplied".
C27_MessagesPerOperation ==
    \A c \in DOMAIN calls :
        LET call == calls[c]
        IN /\ (call.op = "storeDocumentKey" /\ NoMaterial(call))
              => RejectedWith(call, TextNoParameters)
           /\ (call.op = "storeDocumentKey" /\ IncompletePositional(call))
              => RejectedWithPrefix(call, TextNoEncryptedPoint)
           /\ (call.op = "shadowDecrypt" /\ NoMaterial(call))
              => RejectedWith(call, TextNotSupplied)
           /\ (call.op = "shadowDecrypt" /\ IncompletePositional(call))
              => RejectedWithPrefix(call, TextNotEnough)

\* storeDocumentKey(id, sig, "0xc1", undefined) was rejected with "Common point
\* was given but no encrypted point (undefined)"
C27_Witness ==
    \E c \in DOMAIN calls :
        /\ calls[c].op = "storeDocumentKey"
        /\ calls[c].args[3] = Str(<<"0", "x", "c", "1">>)
        /\ calls[c].args[4] = Undef
        /\ calls[c].st = "rejected"
        /\ calls[c].out.v.message =
              TextNoEncryptedPoint \o <<" ", "(", "u", "n", "d", "e", "f", "i", "n", "e", "d", ")">>


----------------------------------------------------------------------------
(* C28 *)

\* the request of the call was answered with a non-success HTTP response
FailedWithResponse(call) ==
    /\ call.client = "session"
    /\ call.resp.kind = "throw"
    /\ call.resp.v.isAxiosError
    /\ call.resp.v.response # Undef

\* C28: a session call whose request was answered with a non-success HTTP
\* response never resolves and, once settled, is rejected with a
\* SecretStoreSessionError, whatever the body of
\* the response is: a quoted string, an unquoted string, an empty body or a
\* value the transport decoded from JSON.
C28_AlwaysSessionError ==
    \A c \in DOMAIN calls :
        FailedWithResponse(calls[c])
        => (/\ calls[c].st # "resolved"
            /\ HasSettled(calls[c])
                  => (/\ calls[c].out.kind = "throw"
                      /\ calls[c].out.v.class = "SecretStoreSessionError"))


----------------------------------------------------------------------------
(* C29 *)

\* what the positional form of shadowDecrypt decides for the secret, common
\* point and shadows a call supplies
PositionalDecision(call) ==
    shadowDecryptPlan(call.args[1], call.args[2], call.args[3],
                      DecryptSecret(call), DecryptCommonPoint(call),
                      DecryptShadows(call))

\* C29: a shadowDecrypt call given a DocumentKeyPortions object has sent a
\* request to the provider if and only if the positional call with the same
\* decrypted secret, common point and shadows sends one; with an empty list of
\* shadows or a missing or empty common point it was rejected before anything
\* was sent.
C29_SameAcceptanceInBothForms ==
    \A c \in DOMAIN calls :
        (calls[c].op = "shadowDecrypt" /\ calls[c].args[4].t = "object")
        => /\ calls[c].sent # <<>> <=> PositionalDecision(calls[c]).kind = "send"
           /\ (\/ DecryptShadows(calls[c]) = Arr(<<>>)
               \/ Missing(DecryptCommonPoint(calls[c])))
              => RejectedLocally(calls[c])


----------------------------------------------------------------------------
(* C30 *)

\* request() has called back for the legacy call
CalledBack(call) == call.client = "legacy" /\ call.resp # NoOutcome

\* the value C30 gives for a legacy call answered with status 200 and body b
C30_Value(op, b) ==
    CASE op = "Session.storeDocumentKey" -> Return(b)
      [] op = "Session.shadowRetrieveDocumentKey" -> JsonParse(b.s)
      [] OTHER -> Return(Str(utils_removeEnclosingDQuotes(b.s)))

\* C30: the promise of every operation of the legacy Session whose request()
\* has called back is settled, once, whatever the outcome and the verbose
\* argument (true when left out): rejected with the transport's error when the
\* callback reports one; rejected with a SecretStoreSessionError of message
\* "Request failed." carrying the response when the status code is not 200;
\* resolved with the body otherwise (unquoted, JSON-parsed for
\* shadowRetrieveDocumentKey, as delivered for storeDocumentKey).
C30_LegacySettlesOnce ==
    \A c \in DOMAIN calls :
        CalledBack(calls[c])
        => LET call == calls[c]
           IN /\ HasSettled(call)
              /\ call.settles = 1
              /\ IF call.resp.kind = "throw"
                 THEN call.st = "rejected" /\ call.out = call.resp
                 ELSE IF call.resp.v.response.statusCode # Num(200)
                 THEN /\ call.st = "rejected"
                      /\ call.out.v.class = "SecretStoreSessionError"
                      /\ call.out.v.message =
                            <<"R", "e", "q", "u", "e", "s", "t", " ", "f", "a", "i", "l", "e", "d", ".">>
                      /\ call.out.v.response = call.resp.v.response
                 ELSE /\ call.st = "resolved"
                      /\ call.out = C30_Value(call.op, call.resp.v.body)

====
